---- MODULE Spec2Model ----
(***************************************************************************)
(* cliffnotes: the incremental, concurrency-bounded analysis pipeline.     *)
(*                                                                         *)
(*   cache.ts    loadCache, saveCache, computeFileHash, getCacheEntry,     *)
(*               setCacheEntry, isCacheValid, pruneCache                   *)
(*   analyzer.ts Semaphore, analyzeFile, analyzeFiles, isMinified          *)
(*   prompt.ts   detectCategory                                            *)
(*   discovery.ts buildFolderTree                                          *)
(*   index.ts    main                                                      *)
(*                                                                         *)
(* A task is one call of analyzeFile made by analyzeFiles; tasks are named *)
(* by their position in the input list.  An action is one synchronous      *)
(* stretch of a task between two suspension points (an await on file I/O,  *)
(* on the limiter or on the external service).                             *)
(***************************************************************************)
EXTENDS Integers, Sequences, FiniteSets, TLC

\* ------------------------------------------------------------------ bounds

\* Number of files handed to analyzeFiles in the single-batch specification.
NumFiles == 3

\* Largest limiter capacity tried (the capacity is drawn from 1..MaxConcurrency).
MaxConcurrency == 2

\* Number of pipeline runs of the multi-run specification.
MaxRuns == 2

\* Number of files below the root in the multi-run specification.
NumPaths == 2

\* Longest list of current files handed to pruneCache on its own.
MaxCurrentFiles == 3

\* Longest list of analyses handed to buildFolderTree on its own.
MaxAnalyses == 3

\* --------------------------------------------------------------- constants

CACHE_VERSION == 1

\* analyzeFile: content.length > 100000
MaxContentLength == 100000

\* isMinified: avgLineLength > 500
MaxAvgLineLength == 500

\* isMinified: lines.length < 5
MinLinesForMinified == 5

\* ------------------------------------------------------------------- data

\* FileCategory, in the order detectCategory tests the categories.
CategoryOrder ==
    << "schema", "router", "hook", "component", "type",
       "config", "service", "util", "test" >>

\* A file content, by the properties the pipeline reads from it: its length
\* in characters, its number of lines (content.split("\n").length), its
\* sha256 digest cut to 16 hex digits, and the categories whose content
\* predicate of detectCategory it satisfies.  Content 1 is analyzed,
\* content 2 is oversized and content 3 minified.
Contents ==
    { [id |-> 1, length |-> 1200,   lines |-> 40,   digest |-> 1, preds |-> {"service"}],
      [id |-> 2, length |-> 100001, lines |-> 3000, digest |-> 2, preds |-> {"schema", "type"}],
      [id |-> 3, length |-> 5005,   lines |-> 10,   digest |-> 3, preds |-> {"router"}] }

\* The categories in the order the bits of a path's number name them.
PathBits ==
    << "config", "hook", "util", "test", "schema", "router", "component",
       "type", "service" >>

\* The categories whose path predicate of detectCategory a relative path
\* satisfies: the relative paths are named by number, and bit k of the
\* number tells whether the path satisfies the path predicate of category
\* PathBits[k + 1], so that path 1 (config.ts) satisfies that of config and
\* the numbers 1..2^9 run through every combination.
PathPreds(relativePath) ==
    { PathBits[k] : k \in { j \in DOMAIN PathBits :
                               (relativePath \div (2 ^ (j - 1))) % 2 = 1 } }

\* The categories detectCategory has a content predicate for.
ContentCategories == {"schema", "router", "component", "type", "service"}

\* What generateText may return: a text and a usage that may be missing
\* (usage |-> <<>>), in which case the token counts default to 0.
ServiceReplies ==
    { [text |-> 1, usage |-> <<[promptTokens |-> 7, completionTokens |-> 3]>>],
      [text |-> 2, usage |-> <<>>] }

\* JavaScript's undefined, as the value of a missing property.
Undefined == [undefined |-> TRUE]

\* ------------------------------------------------------------- cache.ts

\* computeFileHash: sha256 of the content, first 16 hex digits.
computeFileHash(content) == content.digest

\* A CacheData value is [version, kind, entries, keys]: kind is what the
\* entries property is ("mapping", or "undefined" or "null" when the parsed
\* file has no usable entries property), entries is the mapping, <<>> when
\* there is none, and keys is Object.keys(entries): the relative paths in
\* the order in which they were first assigned, which JSON.stringify and
\* JSON.parse keep.
FreshCache ==
    [version |-> CACHE_VERSION, kind |-> "mapping", entries |-> <<>>,
     keys |-> <<>>]

\* The version property of a parsed cache file: a number, a string or absent.
NumberVersion(n) == [t |-> "number", v |-> n]

\* A cache file on disk is [kind |-> "missing"], [kind |-> "unreadable"]
\* (it exists, reading it fails) or [kind |-> "text", json |-> j], where j is
\* <<>> for a text JSON.parse rejects and <<d>> for one it parses to d:
\* [t |-> "null"], [t |-> "scalar"] (a number, a string, a boolean) or
\* [t |-> "object", version, kind, entries, keys].
loadCache_KeepEntries(file) ==
    IF file.kind = "text" /\ file.json # <<>> /\ file.json[1].t = "object"
    THEN [version |-> CACHE_VERSION, kind |-> file.json[1].kind,
          entries |-> file.json[1].entries, keys |-> file.json[1].keys]
    ELSE FreshCache

\* loadCache, lines 8-26.
loadCache(file) ==
    IF file.kind = "missing" THEN FreshCache             \* !existsSync
    ELSE IF file.kind = "unreadable" THEN FreshCache     \* readFile throws
    ELSE IF file.json = <<>> THEN FreshCache             \* JSON.parse throws
    ELSE LET data == file.json[1]
         IN  IF data.t = "null" THEN FreshCache          \* data.version throws
             ELSE IF data.t = "scalar" THEN FreshCache   \* undefined !== 1
             ELSE IF data.version # NumberVersion(CACHE_VERSION)
                  THEN FreshCache
             ELSE [version |-> data.version.v, kind |-> data.kind,
                   entries |-> data.entries, keys |-> data.keys]

saveCache_StringVersion(cache) ==
    [kind |-> "text",
     json |-> << [t |-> "object", version |-> [t |-> "string", v |-> cache.version],
                  kind |-> cache.kind, entries |-> cache.entries,
                  keys |-> cache.keys] >>]

\* saveCache: the file written is JSON.stringify(cache).
saveCache(cache) ==
    [kind |-> "text",
     json |-> << [t |-> "object", version |-> NumberVersion(cache.version),
                  kind |-> cache.kind, entries |-> cache.entries,
                  keys |-> cache.keys] >>]

\* The elements of a list.
Range(list) == { list[k] : k \in DOMAIN list }

\* Every order in which the keys S of a mapping may have been assigned.
KeyOrders(S) == { o \in [1..Cardinality(S) -> S] : Range(o) = S }

\* The set S as an ascending list: Array.prototype.sort on paths.
RECURSIVE Ascending(_)
Ascending(S) ==
    IF S = {} THEN <<>>
    ELSE LET m == CHOOSE x \in S : \A y \in S : x <= y
         IN  <<m>> \o Ascending(S \ {m})

pruneCache_Inverted(cache, currentFiles) ==
    LET gone == (DOMAIN cache.entries) \cap Range(currentFiles)
    IN  [cache   |-> [cache EXCEPT
                         !.entries = [p \in (DOMAIN cache.entries) \ gone |->
                                         cache.entries[p]],
                         !.keys = SelectSeq(cache.keys, LAMBDA p : p \notin gone)],
         removed |-> SelectSeq(cache.keys, LAMBDA p : p \in gone)]

pruneCache_KeepsStale(cache, currentFiles) ==
    [cache   |-> cache,
     removed |-> SelectSeq(cache.keys, LAMBDA p : p \notin Range(currentFiles))]

\* pruneCache, lines 57-69: the keys of the store are walked in the order of
\* Object.keys; every key that is not in the set made of currentFiles is
\* deleted from the store and pushed on the list returned.
pruneCache(cache, currentFiles) ==
    LET currentFileSet == Range(currentFiles)
        keys == cache.keys
        RECURSIVE Loop(_, _, _, _)
        Loop(entries, left, removedPaths, k) ==
            IF k > Len(keys)
            THEN [cache   |-> [cache EXCEPT !.entries = entries, !.keys = left],
                  removed |-> removedPaths]
            ELSE IF keys[k] \notin currentFileSet
            THEN Loop([p \in (DOMAIN entries) \ {keys[k]} |-> entries[p]],
                      SelectSeq(left, LAMBDA p : p # keys[k]),
                      Append(removedPaths, keys[k]), k + 1)
            ELSE Loop(entries, left, removedPaths, k + 1)
    IN  Loop(cache.entries, cache.keys, << >>, 1)

\* getCacheEntry: cache.entries[relativePath].
getCacheEntry(cache, relativePath) ==
    IF relativePath \in DOMAIN cache.entries
    THEN cache.entries[relativePath]
    ELSE Undefined

setCacheEntry_NoStore(cache, relativePath, entry) == cache

setCacheEntry_DropOthers(cache, relativePath, entry) ==
    [cache EXCEPT !.entries = [p \in {relativePath} |-> entry],
                  !.keys = << relativePath >>]

\* setCacheEntry: cache.entries[relativePath] = entry.  A key that is new
\* comes last in the order of the keys, a key that was there keeps its place.
setCacheEntry(cache, relativePath, entry) ==
    [cache EXCEPT
        !.entries = [p \in (DOMAIN cache.entries) \cup {relativePath} |->
                        IF p = relativePath THEN entry ELSE cache.entries[p]],
        !.keys = IF relativePath \in DOMAIN cache.entries THEN @
                 ELSE Append(@, relativePath)]

isCacheValid_OldOnly(entry, currentHash) ==
    entry # Undefined /\ entry.hash = currentHash /\ entry.analyzedAt = 0

isCacheValid_NoHashCheck(entry, currentHash) == entry # Undefined

isCacheValid_Negated(entry, currentHash) ==
    entry # Undefined /\ entry.hash # currentHash

\* isCacheValid: entry !== undefined && entry.hash === currentHash.
isCacheValid(entry, currentHash) ==
    entry # Undefined /\ entry.hash = currentHash

\* ----------------------------------------------------------- analyzer.ts

detectCategory_LastMatch(filePath, content) ==
    LET holds == PathPreds(filePath) \cup content.preds
        hit   == { k \in 1..Len(CategoryOrder) : CategoryOrder[k] \in holds }
    IN  IF hit = {} THEN "other"
        ELSE CategoryOrder[CHOOSE k \in hit : \A j \in hit : k >= j]

\* detectCategory: the first category, in the fixed order, whose path or
\* content predicate holds; "other" when none does.
detectCategory(filePath, content) ==
    LET holds == PathPreds(filePath) \cup content.preds
        hit   == { k \in 1..Len(CategoryOrder) : CategoryOrder[k] \in holds }
    IN  IF hit = {} THEN "other"
        ELSE CategoryOrder[CHOOSE k \in hit : \A j \in hit : k <= j]

\* isMinified: at least 5 lines and an average line length above 500.
isMinified(content) ==
    IF content.lines < MinLinesForMinified THEN FALSE
    ELSE content.length > MaxAvgLineLength * content.lines

\* The skip guard of analyzeFile.
ShouldSkip(content) ==
    content.length > MaxContentLength \/ isMinified(content)

\* The placeholder summary of a skipped file.
SkippedSummary(relativePath, category) ==
    [kind |-> "skipped", path |-> relativePath, category |-> category]

\* result.text of the external service.
ServiceSummary(reply) == [kind |-> "text", text |-> reply.text]

\* result.usage?.promptTokens ?? 0, result.usage?.completionTokens ?? 0.
ReplyTokens(reply) ==
    IF reply.usage = <<>>
    THEN [input |-> 0, output |-> 0]
    ELSE [input |-> reply.usage[1].promptTokens,
          output |-> reply.usage[1].completionTokens]

ZeroTokens == [input |-> 0, output |-> 0]

\* The CacheEntry analyzeFile builds.
MakeEntry(h, summary, category, at, tokens) ==
    [hash |-> h, summary |-> summary, category |-> category,
     analyzedAt |-> at, tokens |-> tokens]

\* The FileAnalysis analyzeFile returns.
MakeAnalysis(relativePath, category, summary, h, tokens) ==
    [path |-> relativePath, relativePath |-> relativePath,
     category |-> category, summary |-> summary, hash |-> h, tokens |-> tokens]

\* new Semaphore(maxConcurrent).
\* A JavaScript number that may be NaN is << n >> for the number n and
\* << >> for NaN.  The capacity of the limiter is such a number; its count
\* of running tasks is an integer, never NaN.
Number(n) == << n >>

NaN == << >>

\* a < b for an integer a and a number b: false when b is NaN.
LessThan(a, b) == b # NaN /\ a < b[1]

NewSemaphore(maxConcurrent) ==
    [maxConcurrent |-> maxConcurrent, running |-> 0, queue |-> <<>>]

Acquire_NoLimit(sem, t) ==
    [sem |-> [sem EXCEPT !.running = @ + 1], admitted |-> TRUE]

\* Semaphore.acquire by task t: the slot is taken at once when one is free,
\* else the task's resolver is pushed on the queue.
Acquire(sem, t) ==
    IF LessThan(sem.running, sem.maxConcurrent)
    THEN [sem |-> [sem EXCEPT !.running = @ + 1], admitted |-> TRUE]
    ELSE [sem |-> [sem EXCEPT !.queue = Append(@, t)], admitted |-> FALSE]

Release_Lifo(sem) ==
    IF sem.queue = <<>>
    THEN [sem |-> [sem EXCEPT !.running = @ - 1], next |-> <<>>]
    ELSE [sem |-> [sem EXCEPT !.queue = SubSeq(@, 1, Len(@) - 1)],
          next |-> <<sem.queue[Len(sem.queue)]>>]

Release_NoHandOff(sem) ==
    [sem |-> [sem EXCEPT !.running = @ - 1], next |-> <<>>]

Release_WakeAll(sem) ==
    IF sem.queue = <<>>
    THEN [sem |-> [sem EXCEPT !.running = @ - 1], next |-> <<>>]
    ELSE [sem |-> [sem EXCEPT !.running = @ - 1 + Len(sem.queue), !.queue = <<>>],
          next |-> sem.queue]

\* Semaphore.release: running--, then the oldest queued resolver, if any, is
\* shifted off the queue, running++ and it is called.  next is the list of
\* tasks whose acquire() promise is resolved by this call.
Release(sem) ==
    IF sem.queue = <<>>
    THEN [sem |-> [sem EXCEPT !.running = @ - 1], next |-> <<>>]
    ELSE [sem |-> [sem EXCEPT !.running = (@ - 1) + 1, !.queue = Tail(@)],
          next |-> <<Head(sem.queue)>>]


ExitMissPath_NoFinally(sem, outcome) ==
    IF outcome = "failed"
    THEN [sem |-> sem, next |-> <<>>, released |-> FALSE]
    ELSE [sem |-> Release(sem).sem, next |-> Release(sem).next, released |-> TRUE]

\* The try/finally of analyzeFile: semaphore.release() runs however the
\* guarded block is left (outcome is "skipped", "analyzed" or "failed").
ExitMissPath(sem, outcome) ==
    [sem |-> Release(sem).sem, next |-> Release(sem).next, released |-> TRUE]

OnProgress_NoCount(c, file, cached, total) ==
    [c EXCEPT !.invoked = @ + 1,
              !.last = <<[file |-> file, cached |-> cached,
                          current |-> c.completed, total |-> total]>>]

OnProgress_Miscount(c, file, cached, total) ==
    [completed     |-> c.completed + 1,
     cachedCount   |-> c.cachedCount + 1,
     analyzedCount |-> c.analyzedCount,
     invoked       |-> c.invoked + 1,
     last          |-> <<[file |-> file, cached |-> cached,
                          current |-> c.completed + 1, total |-> total]>>]

\* The closure analyzeFiles passes to analyzeFile as onProgress: completed++,
\* cachedCount++ or analyzedCount++, then the caller's callback with the
\* running count and files.length.  c holds the three counters, the number
\* of invocations of the caller's callback and the arguments of the latest.
OnProgress(c, file, cached, total) ==
    [completed     |-> c.completed + 1,
     cachedCount   |-> IF cached THEN c.cachedCount + 1 ELSE c.cachedCount,
     analyzedCount |-> IF cached THEN c.analyzedCount ELSE c.analyzedCount + 1,
     invoked       |-> c.invoked + 1,
     last          |-> <<[file |-> file, cached |-> cached,
                          current |-> c.completed + 1, total |-> total]>>]

NoCounters ==
    [completed |-> 0, cachedCount |-> 0, analyzedCount |-> 0,
     invoked |-> 0, last |-> <<>>]

\* The positions of results, those resolved from the cache first.
HitsFirst(results) ==
    LET n    == Len(results)
        hits == { k \in 1..n : results[k].fromCache }
        rank(k) == IF k \in hits
                   THEN Cardinality({ j \in hits : j <= k })
                   ELSE Cardinality(hits)
                        + Cardinality({ j \in (1..n) \ hits : j <= k })
    IN  [r \in 1..n |-> CHOOSE k \in 1..n : rank(k) = r]

PromiseAllValues_HitsFirst(results) ==
    [k \in 1..Len(results) |-> results[HitsFirst(results)[k]].analysis]

\* The value Promise.all fulfils with in analyzeFiles: result.analysis of
\* every task, by input position.
PromiseAllValues(results) ==
    [k \in 1..Len(results) |-> results[k].analysis]

PromiseAllState_AllSettled(states) ==
    IF \A k \in DOMAIN states : states[k] # "pending" THEN "fulfilled" ELSE "pending"

\* The state Promise.all takes from the states of its input promises:
\* rejected as soon as one is rejected, fulfilled when all are fulfilled.
PromiseAllState(states) ==
    IF \E k \in DOMAIN states : states[k] = "rejected" THEN "rejected"
    ELSE IF \A k \in DOMAIN states : states[k] = "fulfilled" THEN "fulfilled"
    ELSE "pending"

\* ---------------------------------------------------------- discovery.ts

\* relativePath.split("/") for the relative paths of the model, which are
\* named by number: path 1 is config.ts, path 2 sub/useB.ts, and so on.
PathTable ==
    << << "config.ts" >>,
       << "sub", "useB.ts" >>,
       << "sub", "deep", "useConfig.ts" >>,
       << "deep", "d.util.ts" >>,
       << "sub", "config.util.ts" >>,
       << "sub", "deep", "useC.util.ts" >>,
       << "deep", "sub", "useConfig.util.ts" >> >>

split(relativePath) == PathTable[relativePath]

\* The folder names of PathTable in the order of their UTF-16 code units,
\* the order Array.prototype.sort compares strings by.
FolderNames == << "deep", "sub" >>

CodeUnitRank(name) == CHOOSE k \in DOMAIN FolderNames : FolderNames[k] = name

\* A folder path is the list of its segments (parts.join("/") and
\* path.split("/") are inverse to each other on names without a slash); the
\* root sentinel "." is the one-segment path of that name.
Root == << "." >>

\* new Map(): no folder; keys lists the keys in insertion order.
EmptyTree == [folders |-> << >>, keys |-> << >>, root |-> Root]

sort_Unsorted(list) == list

\* folder.subfolders.sort()
RECURSIVE sort(_)
sort(list) ==
    IF list = << >> THEN << >>
    ELSE LET m == CHOOSE k \in DOMAIN list :
                    /\ \A j \in DOMAIN list :
                          CodeUnitRank(list[k]) <= CodeUnitRank(list[j])
                    /\ \A j \in 1..(k - 1) :
                          CodeUnitRank(list[j]) # CodeUnitRank(list[k])
         IN  << list[m] >> \o
             sort(SubSeq(list, 1, m - 1) \o SubSeq(list, m + 1, Len(list)))

\* if (!folders.has(key)) folders.set(key, {path, name, files: [],
\* subfolders: [], depth})
EnsureFolder(t, key, name, depth) ==
    IF key \in DOMAIN t.folders THEN t
    ELSE [t EXCEPT
            !.folders = [k \in (DOMAIN t.folders) \cup {key} |->
                            IF k = key
                            THEN [path |-> key, name |-> name, files |-> << >>,
                                  subfolders |-> << >>, depth |-> depth]
                            ELSE t.folders[k]],
            !.keys = Append(@, key)]

AssignFile_Prepend(t, analysis) ==
    LET parts      == SubSeq(split(analysis.relativePath), 1,
                             Len(split(analysis.relativePath)) - 1)
        folderPath == IF Len(parts) > 0 THEN parts ELSE Root
        t1 == EnsureFolder(t, folderPath,
                           IF Len(parts) > 0 THEN parts[Len(parts)] ELSE "root",
                           Len(parts))
    IN  [t1 EXCEPT !.folders[folderPath].files = << analysis >> \o @]

\* buildFolderTree, lines 67-83, one turn of the first loop: the file goes to
\* the folder named by its path without the last segment.
AssignFile(t, analysis) ==
    LET parts      == SubSeq(split(analysis.relativePath), 1,
                             Len(split(analysis.relativePath)) - 1)
        folderPath == IF Len(parts) > 0 THEN parts ELSE Root
        t1 == EnsureFolder(t, folderPath,
                           IF Len(parts) > 0 THEN parts[Len(parts)] ELSE "root",
                           Len(parts))
    IN  [t1 EXCEPT !.folders[folderPath].files = Append(@, analysis)]

RECURSIVE FirstPass(_, _, _)
FirstPass(t, analyses, k) ==
    IF k > Len(analyses) THEN t
    ELSE FirstPass(AssignFile(t, analyses[k]), analyses, k + 1)

\* buildFolderTree, lines 95-112, one turn of the inner loop (i counts from
\* 0): the ancestor of i segments exists and lists segment i as a subfolder.
LinkAncestor(t, parts, i) ==
    LET ancestorPath == IF i = 0 THEN Root ELSE SubSeq(parts, 1, i)
        t1 == EnsureFolder(t, ancestorPath,
                           IF i = 0 THEN "root" ELSE parts[i], i)
        childName == parts[i + 1]
    IN  IF childName \in Range(t1.folders[ancestorPath].subfolders) THEN t1
        ELSE [t1 EXCEPT !.folders[ancestorPath].subfolders = Append(@, childName)]

LinkAncestors_ParentOnly(t, parts, i) ==
    LinkAncestor(t, parts, Len(parts) - 1)

\* for (let i = 0; i < parts.length; i++)
RECURSIVE LinkAncestors(_, _, _)
LinkAncestors(t, parts, i) ==
    IF i >= Len(parts) THEN t
    ELSE LinkAncestors(LinkAncestor(t, parts, i), parts, i + 1)

\* for (const path of allPaths), the root skipped.
RECURSIVE SecondPass(_, _, _)
SecondPass(t, allPaths, k) ==
    IF k > Len(allPaths) THEN t
    ELSE SecondPass(IF allPaths[k] = Root THEN t
                    ELSE LinkAncestors(t, allPaths[k], 0),
                    allPaths, k + 1)

\* buildFolderTree, lines 63-122.
buildFolderTree(analyses) ==
    LET t1 == FirstPass(EmptyTree, analyses, 1)
        t2 == SecondPass(t1, t1.keys, 1)
    IN  [t2 EXCEPT !.folders =
            [k \in DOMAIN t2.folders |->
                [t2.folders[k] EXCEPT !.subfolders = sort(@)]]]

\* getFoldersWithContent, line 142: the path of the subfolder sub of the
\* folder at path.
SubPath(path, sub) == IF path = Root THEN << sub >> ELSE Append(path, sub)

\* A folder has content only when it holds a file itself.
hasContent_FilesOnly(t, path) ==
    IF path \notin DOMAIN t.folders THEN << FALSE >>
    ELSE << Len(t.folders[path].files) > 0 >>

\* hasContent, lines 131-139, as the outcome of the call: << TRUE >> or
\* << FALSE >> is the value it returns, << >> stands for a call that does
\* not return. The folder at path exists and has a file, or one of the
\* subfolders it names has content; some() asks the subfolders in their
\* order and stops at the first with content. stack holds the paths of the
\* calls that have not returned yet: a call for one of them takes the steps
\* that call took and makes the same call again, so the recursion goes on
\* until the call stack is exhausted and a RangeError is thrown, which
\* nothing here catches. The one path that is its own subfolder path is
\* the root: subPath is "." for the subfolder name "." of the folder ".".
hasContent(t, path) ==
    LET RECURSIVE call(_, _)
        call(p, stack) ==
            IF p \notin DOMAIN t.folders THEN << FALSE >>
            ELSE IF Len(t.folders[p].files) > 0 THEN << TRUE >>
            ELSE IF p \in stack THEN << >>
            ELSE LET subfolders == t.folders[p].subfolders
                     RECURSIVE some(_)
                     some(k) ==
                         IF k > Len(subfolders) THEN << FALSE >>
                         ELSE LET outcome == call(SubPath(p, subfolders[k]),
                                                  stack \cup {p})
                              IN  IF outcome = << FALSE >> THEN some(k + 1)
                                  ELSE outcome
                 IN  some(1)
    IN  call(path, {})

\* String.prototype.localeCompare on two folder paths, as -1, 0 or 1. The
\* segments are compared in turn: "." and "/" are punctuation, which the
\* collation puts before every letter, so the root sentinel comes first and a
\* path comes before the paths it is a proper prefix of; two folder names
\* compare by their letters.
LocaleOrder == << ".", "deep", "sub" >>

LocaleRank(name) == CHOOSE k \in DOMAIN LocaleOrder : LocaleOrder[k] = name

RECURSIVE localeCompare(_, _)
localeCompare(a, b) ==
    IF a = << >> /\ b = << >> THEN 0
    ELSE IF a = << >> THEN -1
    ELSE IF b = << >> THEN 1
    ELSE IF LocaleRank(Head(a)) < LocaleRank(Head(b)) THEN -1
    ELSE IF LocaleRank(Head(a)) > LocaleRank(Head(b)) THEN 1
    ELSE localeCompare(Tail(a), Tail(b))

sortByPath_Unsorted(list) == list

\* result.sort((a, b) => a.path.localeCompare(b.path)), line 151: the first
\* of the least folders, then the rest sorted; Array.prototype.sort is stable.
RECURSIVE sortByPath(_)
sortByPath(list) ==
    IF list = << >> THEN << >>
    ELSE LET least == CHOOSE k \in DOMAIN list :
                 /\ \A j \in DOMAIN list :
                        localeCompare(list[k].path, list[j].path) <= 0
                 /\ \A j \in 1..(k - 1) :
                        localeCompare(list[j].path, list[k].path) # 0
             rest == [j \in 1..(Len(list) - 1) |->
                        IF j < least THEN list[j] ELSE list[j + 1]]
         IN  << list[least] >> \o sortByPath(rest)

\* Lines 141-147 with the filtered list written back to the folder of the
\* tree, where the code builds a copy of the folder.
getFoldersWithContent_InPlace(t) ==
    LET keep(path) ==
            SelectSeq(t.folders[path].subfolders,
                      LAMBDA sub : hasContent(t, SubPath(path, sub)) = << TRUE >>)
        kept == SelectSeq(t.keys, LAMBDA path : hasContent(t, path) = << TRUE >>)
        thrown ==
            \E k \in DOMAIN t.keys :
                \/ hasContent(t, t.keys[k]) = << >>
                \/ /\ hasContent(t, t.keys[k]) = << TRUE >>
                   /\ \E j \in DOMAIN t.folders[t.keys[k]].subfolders :
                         hasContent(t, SubPath(t.keys[k],
                             t.folders[t.keys[k]].subfolders[j])) = << >>
    IN  IF thrown THEN [thrown |-> TRUE, result |-> << >>, tree |-> t]
        ELSE [thrown |-> FALSE,
              result |-> sortByPath([k \in DOMAIN kept |->
                        [t.folders[kept[k]] EXCEPT !.subfolders = keep(kept[k])]]),
              tree |-> [t EXCEPT !.folders =
                     [path \in DOMAIN t.folders |->
                        [t.folders[path] EXCEPT !.subfolders = keep(path)]]]]

\* getFoldersWithContent, lines 128-153: the folders with content, in the
\* order of the tree's keys and then sorted by path, each a copy with its
\* subfolders filtered; tree is the tree the call leaves behind. The loop
\* calls hasContent for every key and, for a key with content, for every
\* subfolder the folder names; when one of these calls does not return, the
\* RangeError leaves the function and no list is returned (thrown).
getFoldersWithContent(t) ==
    LET keep(path) ==
            SelectSeq(t.folders[path].subfolders,
                      LAMBDA sub : hasContent(t, SubPath(path, sub)) = << TRUE >>)
        kept == SelectSeq(t.keys, LAMBDA path : hasContent(t, path) = << TRUE >>)
        thrown ==
            \E k \in DOMAIN t.keys :
                \/ hasContent(t, t.keys[k]) = << >>
                \/ /\ hasContent(t, t.keys[k]) = << TRUE >>
                   /\ \E j \in DOMAIN t.folders[t.keys[k]].subfolders :
                         hasContent(t, SubPath(t.keys[k],
                             t.folders[t.keys[k]].subfolders[j])) = << >>
    IN  IF thrown THEN [thrown |-> TRUE, result |-> << >>, tree |-> t]
        ELSE [thrown |-> FALSE,
              result |-> sortByPath([k \in DOMAIN kept |->
                        [t.folders[kept[k]] EXCEPT !.subfolders = keep(kept[k])]]),
              tree |-> t]

\* ---------------------------------------- discovery.ts: discoverFiles

\* A string is the list of its UTF-16 code units.
Slash == 47
Backslash == 92
Dot == 46

\* "CLIFFNOTES.md"
OutputFileName == << 67, 76, 73, 70, 70, 78, 79, 84, 69, 83, 46, 109, 100 >>

\* ".cliffnotes-cache.json"
CacheFileName ==
    << 46, 99, 108, 105, 102, 102, 110, 111, 116, 101, 115, 45, 99, 97, 99,
       104, 101, 46, 106, 115, 111, 110 >>

\* ".gitignore"
GitignoreName == << 46, 103, 105, 116, 105, 103, 110, 111, 114, 101 >>

\* ".ts", ".tsx", ".js", ".jsx"
ExtTs == << 46, 116, 115 >>
ExtTsx == << 46, 116, 115, 120 >>
ExtJs == << 46, 106, 115 >>
ExtJsx == << 46, 106, 115, 120 >>

StartsWith(str, prefix) ==
    Len(prefix) <= Len(str) /\ SubSeq(str, 1, Len(prefix)) = prefix

EndsWith(str, suffix) ==
    /\ Len(suffix) <= Len(str)
    /\ SubSeq(str, Len(str) - Len(suffix) + 1, Len(str)) = suffix

Contains(str, infix) ==
    \E k \in 1..(Len(str) - Len(infix) + 1) :
        SubSeq(str, k, k + Len(infix) - 1) = infix

\* str.split(unit): the pieces of str between the occurrences of unit.
RECURSIVE SplitOn(_, _)
SplitOn(str, unit) ==
    IF \A k \in DOMAIN str : str[k] # unit THEN << str >>
    ELSE LET first == CHOOSE k \in DOMAIN str :
                 str[k] = unit /\ \A j \in 1..(k - 1) : str[j] # unit
         IN  << SubSeq(str, 1, first - 1) >>
                \o SplitOn(SubSeq(str, first + 1, Len(str)), unit)

\* segments.join(sep)
RECURSIVE Join(_, _)
Join(segments, sep) ==
    IF Len(segments) = 1 THEN segments[1]
    ELSE segments[1] \o << sep >> \o Join(Tail(segments), sep)

\* file.replace(/\\/g, "/"), line 56.
replace(file) ==
    [k \in DOMAIN file |-> IF file[k] = Backslash THEN Slash ELSE file[k]]

\* The include patterns: "**/*" followed by suffix when dot is FALSE,
\* "**/.*" followed by suffix when dot is TRUE.
IncludePattern(dot, suffix) == [dot |-> dot, suffix |-> suffix]

\* glob with dot: false, on the segments of a file below the root: no
\* folder on the way starts with a dot, the file name starts with a dot just
\* when the pattern spells it, and the name ends with the suffix. The dot
\* the pattern spells is not part of the suffix: "*" stands for any run of
\* characters, the empty one included, between that dot and the suffix, so
\* that the name is at least one character longer than the suffix.
globMatches(pattern, segments) ==
    LET name == segments[Len(segments)]
    IN  /\ \A k \in 1..(Len(segments) - 1) : ~StartsWith(segments[k], << Dot >>)
        /\ StartsWith(name, << Dot >>) <=> pattern.dot
        /\ pattern.dot => Len(name) >= 1 + Len(pattern.suffix)
        /\ EndsWith(name, pattern.suffix)

\* The files below the root, each the list of its segments, in the order
\* glob walks them.
\*   aB.ts, a/b.ts, a\b.ts (one file whose name holds a backslash),
\*   CLIFFNOTES.md, a/CLIFFNOTES.md, .cliffnotes-cache.json, .gitignore
FileTable ==
    << << << 97, 66 >> \o ExtTs >>,
       << << 97 >>, << 98 >> \o ExtTs >>,
       << << 97, Backslash, 98 >> \o ExtTs >>,
       << OutputFileName >>,
       << << 97 >>, OutputFileName >>,
       << CacheFileName >>,
       << GitignoreName >> >>

\* The orders in which glob may come upon the files of a directory: the
\* order is that of its walk, which the code does not fix.  Three orders
\* are tried: that of FileTable, the one a run of glob gave (a\b.ts, aB.ts,
\* CLIFFNOTES.md, a/b.ts, a/CLIFFNOTES.md, .gitignore,
\* .cliffnotes-cache.json) and the reverse of FileTable.
WalkOrders ==
    { [k \in DOMAIN FileTable |-> FileTable[o[k]]] :
        o \in { << 1, 2, 3, 4, 5, 6, 7 >>, << 3, 1, 4, 2, 5, 7, 6 >>,
                << 7, 6, 5, 4, 3, 2, 1 >> } }

\* glob(pattern, {cwd: rootDir, nodir: true, absolute: false, dot: false}),
\* lines 35-40: the files of the root that match, in the order of the walk,
\* each as one string with the separator of the platform.  A root that does
\* not exist has no file; a root with an ignore file holds the file
\* .gitignore next to the files present.
glob(pattern, root) ==
    LET found == SelectSeq(root.walk,
                    LAMBDA segments :
                       /\ root.exists
                       /\ \/ segments \in root.present
                          \/ /\ root.gitignore.exists
                             /\ segments = << GitignoreName >>
                       /\ globMatches(pattern, segments))
    IN  [k \in DOMAIN found |-> Join(found[k], root.sep)]

\* The lines of an ignore file and the exclude patterns: kind "any" is "*",
\* "name" is name or "**/name", "below" is "**/name/**", "contains" is
\* "**/*name*", "endsWith" is "**/*name"; negative is a leading "!".
Rule(negative, kind, name) == [negative |-> negative, kind |-> kind, name |-> name]

\* One rule of ignore against a path given as its segments: the rule looks
\* at the last segment, or, for "below", at the folders above it.
ruleMatches(rule, segments) ==
    LET last == segments[Len(segments)]
    IN  CASE rule.kind = "any"      -> TRUE
          [] rule.kind = "name"     -> last = rule.name
          [] rule.kind = "below"    ->
                \E k \in 1..(Len(segments) - 1) : segments[k] = rule.name
          [] rule.kind = "contains" -> Contains(last, rule.name)
          [] rule.kind = "endsWith" -> EndsWith(last, rule.name)

\* ignore, _testOne: the last rule that matches the path decides; a path no
\* rule matches is not ignored.
RECURSIVE testOne(_, _, _)
testOne(rules, segments, ignored) ==
    IF rules = << >> THEN ignored
    ELSE testOne(Tail(rules), segments,
                 IF ruleMatches(Head(rules), segments)
                 THEN ~Head(rules).negative ELSE ignored)

\* ig.ignores(file), line 50: a path is ignored when a folder above it is
\* ignored or the rules ignore the path itself. ignore splits the path at
\* "/"; on Windows it first turns every backslash into a slash.
ignores(rules, file, sep) ==
    LET segments == SplitOn(IF sep = Backslash THEN replace(file) ELSE file, Slash)
    IN  \E n \in 1..Len(segments) : testOne(rules, SubSeq(segments, 1, n), FALSE)

\* [...new Set(allFiles)], line 47: the first occurrence of each string.
Unique(list) ==
    LET first(k) == \A j \in 1..(k - 1) : list[j] # list[k]
        RECURSIVE Keep(_)
        Keep(k) == IF k > Len(list) THEN << >>
                   ELSE (IF first(k) THEN << list[k] >> ELSE << >>) \o Keep(k + 1)
    IN  Keep(1)

\* The order of Array.prototype.sort without a comparator: by UTF-16 code
\* units, a proper prefix first.
RECURSIVE CodeUnitsBefore(_, _)
CodeUnitsBefore(a, b) ==
    IF b = << >> THEN FALSE
    ELSE IF a = << >> THEN TRUE
    ELSE IF Head(a) # Head(b) THEN Head(a) < Head(b)
    ELSE CodeUnitsBefore(Tail(a), Tail(b))

\* filtered.sort(), line 53, on a list without repetition.
RECURSIVE sortStrings(_)
sortStrings(list) ==
    IF list = << >> THEN << >>
    ELSE LET least == CHOOSE k \in DOMAIN list :
                 \A j \in DOMAIN list : j # k => CodeUnitsBefore(list[k], list[j])
         IN  << list[least] >>
                \o sortStrings([j \in 1..(Len(list) - 1) |->
                                  IF j < least THEN list[j] ELSE list[j + 1]])

\* Lines 16-30: the rules of .gitignore if the file exists, then the exclude
\* patterns, then the output file, the cache file and "**/CLIFFNOTES.md".
ignoreRules(root, cfg) ==
    (IF root.exists /\ root.gitignore.exists THEN root.gitignore.rules ELSE << >>)
    \o cfg.exclude
    \o << Rule(FALSE, "name", cfg.outputFile),
          Rule(FALSE, "name", cfg.cacheFile),
          Rule(FALSE, "name", OutputFileName) >>

\* Lines 33-44: the matches of the include patterns, one after the other.
RECURSIVE allFiles(_, _)
allFiles(include, root) ==
    IF include = << >> THEN << >>
    ELSE glob(Head(include), root) \o allFiles(Tail(include), root)

\* discoverFiles, lines 11-58, on the root directory root with the
\* configuration cfg. absolute stands for resolve(rootDir, file): the string
\* glob returned, below the root.
discoverFilesIn(root, cfg) ==
    LET uniqueFiles == Unique(allFiles(cfg.include, root))
        filtered    == SelectSeq(uniqueFiles,
                          LAMBDA file : ~ignores(ignoreRules(root, cfg), file, root.sep))
        sorted      == sortStrings(filtered)
    IN  [k \in DOMAIN sorted |->
            [absolute |-> sorted[k], relative |-> replace(sorted[k])]]

\* DEFAULT_CONFIG, types.ts lines 62-83, the fields discovery reads.
\* node_modules, dist, build, .next, coverage, generated; .test., .spec.,
\* .d.ts
DEFAULT_CONFIG ==
    [concurrency |-> Number(5),
     include |-> << IncludePattern(FALSE, ExtTs), IncludePattern(FALSE, ExtTsx),
                    IncludePattern(FALSE, ExtJs), IncludePattern(FALSE, ExtJsx) >>,
     exclude |->
        << Rule(FALSE, "below", << 110, 111, 100, 101, 95, 109, 111, 100, 117, 108, 101, 115 >>),
           Rule(FALSE, "below", << 100, 105, 115, 116 >>),
           Rule(FALSE, "below", << 98, 117, 105, 108, 100 >>),
           Rule(FALSE, "below", << 46, 110, 101, 120, 116 >>),
           Rule(FALSE, "below", << 99, 111, 118, 101, 114, 97, 103, 101 >>),
           Rule(FALSE, "contains", << 46, 116, 101, 115, 116, 46 >>),
           Rule(FALSE, "contains", << 46, 115, 112, 101, 99, 46 >>),
           Rule(FALSE, "endsWith", << 46, 100 >> \o ExtTs),
           Rule(FALSE, "below", << 103, 101, 110, 101, 114, 97, 116, 101, 100 >>) >>,
     outputFile |-> OutputFileName,
     cacheFile |-> CacheFileName]

\* The white space and line terminator characters of JavaScript, which
\* parseInt skips at the start of its text.  A character that has no
\* spelling in a string is named by its code point.
WhiteSpace ==
    { " ", "\t", "\n", "\r", "\f", "U+000B", "U+00A0", "U+1680", "U+2000",
      "U+2001", "U+2002", "U+2003", "U+2004", "U+2005", "U+2006", "U+2007",
      "U+2008", "U+2009", "U+200A", "U+2028", "U+2029", "U+202F", "U+205F",
      "U+3000", "U+FEFF" }

\* parseInt(str, 10): white space is skipped, a sign is read, then the
\* digits up to the first character that is none; NaN when there is no
\* digit.  The value is an integer of the model checker: a text of more
\* than nine digits is outside the model.
parseInt(str) ==
    LET digit == << "0", "1", "2", "3", "4", "5", "6", "7", "8", "9" >>
        IsDigit(ch) == \E n \in DOMAIN digit : digit[n] = ch
        DigitValue(ch) == (CHOOSE n \in DOMAIN digit : digit[n] = ch) - 1
        RECURSIVE TrimStart(_)
        TrimStart(t) ==
            IF t # << >> /\ Head(t) \in WhiteSpace THEN TrimStart(Tail(t)) ELSE t
        RECURSIVE LeadingDigits(_)
        LeadingDigits(t) ==
            IF t = << >> \/ ~IsDigit(Head(t)) THEN << >>
            ELSE << Head(t) >> \o LeadingDigits(Tail(t))
        RECURSIVE DecimalValue(_)
        DecimalValue(ds) ==
            IF ds = << >> THEN 0
            ELSE 10 * DecimalValue(SubSeq(ds, 1, Len(ds) - 1))
                   + DigitValue(ds[Len(ds)])
        trimmed == TrimStart(str)
        signed  == trimmed # << >> /\ Head(trimmed) \in {"+", "-"}
        digits  == LeadingDigits(IF signed THEN Tail(trimmed) ELSE trimmed)
    IN  IF digits = << >> THEN NaN
        ELSE IF signed /\ Head(trimmed) = "-"
             THEN Number(0 - DecimalValue(digits))
        ELSE Number(DecimalValue(digits))

\* main, lines 111-117: the configuration is a copy of DEFAULT_CONFIG in
\* which the number parseInt reads after -c or --concurrency replaces the
\* concurrency.  A command line is << >> without the flag and << text >>
\* with the flag followed by the text.
ConfigOf(commandLine) ==
    IF commandLine = << >> THEN DEFAULT_CONFIG
    ELSE [DEFAULT_CONFIG EXCEPT !.concurrency = parseInt(commandLine[1])]

\* What may follow -c on the command line: "0", "-1", "abc", "2", "1x",
\* " 2", a tab and "2", and nothing at all, where args[++i] is undefined
\* and parseInt reads the text "undefined".
ConcurrencyArgs ==
    { << "0" >>, << "-", "1" >>, << "a", "b", "c" >>, << "2" >>,
      << "1", "x" >>, << " ", "2" >>, << "\t", "2" >>,
      << "u", "n", "d", "e", "f", "i", "n", "e", "d" >> }

\* The command lines of the runs of main: -c 1, which makes every task but
\* one wait in the queue of the limiter.  Other capacities are tried on the
\* batch alone, in Init and InitLimit.
CommandLines == { << << "1" >> >> }

\* The config main builds from each of these command lines.
Configs == [commandLine \in CommandLines |-> ConfigOf(commandLine)]

NoGitignore == [exists |-> FALSE, rules |-> << >>]

\* The root directory of a run whose files are given by disk alone: it
\* exists, on a platform with the separator "/", without an ignore file.
PlainRoot ==
    [exists |-> TRUE, sep |-> Slash, present |-> {}, gitignore |-> NoGitignore,
     walk |-> << >>]

\* ------------------------------------------------------------------ state

VARIABLES
    files,          \* analyzeFiles: the input list, files[i] a relative path
    disk,           \* the content of each path on disk
    cache,          \* the in-memory CacheData shared by the tasks
    semaphore,      \* the Semaphore of the batch
    pc,             \* pc[i]: where task i stands
    hash,           \* analyzeFile: hash, once computed
    cachedEntry,    \* analyzeFile: cachedEntry, once read
    content,        \* analyzeFile: content, once read
    category,       \* analyzeFile: category, once detected
    result,         \* the AnalyzeFileResult task i returned
    err,            \* the cause of task i's failure
    counters,       \* analyzeFiles: completed, cachedCount, analyzedCount,
                    \* and the caller's progress callback
    fired,          \* fired[i]: invocations of task i's onProgress
    batch,          \* the promise analyzeFiles returns
    acquires,       \* acquires[i]: calls of semaphore.acquire by task i
    ticket,         \* ticket[i]: from the time task i is queued on the
                    \* limiter until it resumes, the rank of its acquire
                    \* call among all acquire calls; else 0
    releases,       \* releases[i]: calls of semaphore.release by task i
    calls,          \* calls[i]: calls of generateText by task i
    phase,          \* main: where the run stands
    run,            \* the number of the current run; it stands for the
                    \* clock read by new Date() in analyzedAt
    cacheFile,      \* the cache file on disk
    history,        \* what earlier runs saw and saved
    removedFromCache, \* main: the list pruneCache returned
    cacheIO,        \* the calls of loadCache and of saveCache in this run
    tree,           \* main: the FolderTree buildFolderTree returned
    foldersWithContent, \* main: the list getFoldersWithContent returned
    rootDir,        \* main: the root directory, as glob and ignore see it
    config          \* main: the configuration, the fields discovery reads

vars ==
    << files, disk, cache, semaphore, pc, hash, cachedEntry, content, category,
       result, err, counters, fired, batch, acquires, ticket, releases, calls,
       phase, run, cacheFile, history, removedFromCache, cacheIO, tree,
       foldersWithContent, rootDir, config >>

localVars == << hash, cachedEntry, content, category >>
mainVars ==
    << phase, run, cacheFile, history, disk, files, removedFromCache, cacheIO,
       tree,
       foldersWithContent, rootDir, config >>

\* The tasks files.map started.
Tasks == DOMAIN pc

\* No call of loadCache or saveCache yet.
NoCacheIO == [loads |-> 0, saves |-> 0]

\* What main holds before it has pruned the store and built the tree; its
\* configuration is the one that gave the limiter its capacity.
MemoryAtStart ==
    /\ removedFromCache = << >>
    /\ cacheIO = NoCacheIO
    /\ tree = EmptyTree
    /\ foldersWithContent = << >>
    /\ rootDir = PlainRoot
    /\ config = [DEFAULT_CONFIG EXCEPT !.concurrency = semaphore.maxConcurrent]

NoResult == [analysis |-> Undefined, fromCache |-> FALSE]

PendingBatch ==
    [state |-> "pending", error |-> <<>>, analyses |-> <<>>,
     cached |-> 0, analyzed |-> 0]

\* Task states.  "hashing": computeFileHash is reading the file.  "queued":
\* suspended in acquire() on the limiter's queue.  "admitted": the slot is
\* the task's, its continuation after acquire() has not run yet.
\* "reading": readFile is in flight.  "calling": generateText is in flight.
Holding   == {"admitted", "reading", "calling"}
Fulfilled == {"hit", "skipped", "analyzed"}
Terminal  == Fulfilled \cup {"failed"}

\* The state of a task's promise.
PromiseState(p) ==
    IF p \in Fulfilled THEN "fulfilled"
    ELSE IF p = "failed" THEN "rejected" ELSE "pending"

\* analyzeFiles awaiting Promise.all over the tasks: the batch's promise is
\* settled once; a rejection carries the failure that caused it, a
\* fulfilment the analyses in Promise.all's order and the two counters.
SettleBatch(b, pc2, result2, counters2, i, cause) ==
    IF b.state # "pending" THEN b
    ELSE LET st == PromiseAllState([k \in DOMAIN pc2 |-> PromiseState(pc2[k])])
         IN  IF st = "rejected"
             THEN [b EXCEPT !.state = "rejected",
                            !.error = <<[task |-> i, cause |-> cause]>>]
             ELSE IF st = "fulfilled"
             THEN [state    |-> "fulfilled",
                   error    |-> <<>>,
                   analyses |-> PromiseAllValues(result2),
                   cached   |-> counters2.cachedCount,
                   analyzed |-> counters2.analyzedCount]
             ELSE b

\* The tasks a release hands the slot to leave the queue.
Admit(pc2, next) ==
    [k \in DOMAIN pc2 |->
        IF \E n \in DOMAIN next : next[n] = k THEN "admitted" ELSE pc2[k]]

\* The promise of a task was rejected after its finally clause handed the
\* slot on, and the rejection has not yet reached the promise analyzeFiles
\* awaits: the continuations of the admitted tasks come first in the
\* microtask queue.  Nothing else runs until they have run.
Rejecting == batch.state = "pending" /\ batch.error # << >>

\* A task that was given a slot has not yet resumed after its await of
\* semaphore.acquire(), line 188: its continuation is in the microtask
\* queue, which is emptied before the completion of any file read or
\* service call is delivered.
Resuming == \E k \in DOMAIN pc : pc[k] = "admitted"

\* The number of semaphore.acquire calls made so far.
Arrivals == LET RECURSIVE Sum(_)
                Sum(k) == IF k = 0 THEN 0 ELSE acquires[k] + Sum(k - 1)
            IN  Sum(Len(acquires))

\* ---------------------------------------------------------------- actions

\* A cache hit that also stamps the entry it found with the time of the run.
HashDone_RefreshHit(i) ==
    /\ phase = "analyzing"
    /\ ~Resuming
    /\ pc[i] = "hashing"
    /\ LET h == computeFileHash(disk[files[i]])
           e == getCacheEntry(cache, files[i])
       IN  /\ hash' = [hash EXCEPT ![i] = h]
           /\ cachedEntry' = [cachedEntry EXCEPT ![i] = e]
           /\ IF isCacheValid(e, h)
              THEN /\ counters' = OnProgress(counters, files[i], TRUE, Len(files))
                   /\ fired' = [fired EXCEPT ![i] = @ + 1]
                   /\ result' = [result EXCEPT ![i] =
                          [analysis  |-> MakeAnalysis(files[i], e.category,
                                                      e.summary, h, e.tokens),
                           fromCache |-> TRUE]]
                   /\ pc' = [pc EXCEPT ![i] = "hit"]
                   /\ batch' = SettleBatch(batch, pc', result', counters', i, "none")
                   /\ cache' = setCacheEntry(cache, files[i],
                                             [e EXCEPT !.analyzedAt = run])
                   /\ UNCHANGED << semaphore, acquires, ticket >>
              ELSE LET a == Acquire(semaphore, i)
                   IN  /\ semaphore' = a.sem
                       /\ pc' = [pc EXCEPT ![i] =
                                    IF a.admitted THEN "admitted" ELSE "queued"]
                       /\ acquires' = [acquires EXCEPT ![i] = @ + 1]
                       /\ ticket' = [ticket EXCEPT ![i] =
                                        IF a.admitted THEN 0 ELSE Arrivals + 1]
                       /\ UNCHANGED << cache, counters, fired, result, batch >>
    /\ UNCHANGED << content, category, err, releases, calls, mainVars >>

\* analyzeFile, lines 168-188: computeFileHash has read the file.  A valid
\* entry is returned at once as a cache hit; otherwise the task calls
\* semaphore.acquire().
HashDone(i) ==
    /\ phase = "analyzing"
    /\ ~Resuming
    /\ pc[i] = "hashing"
    /\ LET h == computeFileHash(disk[files[i]])
           e == getCacheEntry(cache, files[i])
       IN  /\ hash' = [hash EXCEPT ![i] = h]
           /\ cachedEntry' = [cachedEntry EXCEPT ![i] = e]
           /\ IF isCacheValid(e, h)
              THEN /\ counters' = OnProgress(counters, files[i], TRUE, Len(files))
                   /\ fired' = [fired EXCEPT ![i] = @ + 1]
                   /\ result' = [result EXCEPT ![i] =
                          [analysis  |-> MakeAnalysis(files[i], e.category,
                                                      e.summary, h, e.tokens),
                           fromCache |-> TRUE]]
                   /\ pc' = [pc EXCEPT ![i] = "hit"]
                   /\ batch' = SettleBatch(batch, pc', result', counters', i, "none")
                   /\ UNCHANGED << semaphore, acquires, ticket >>
              ELSE LET a == Acquire(semaphore, i)
                   IN  /\ semaphore' = a.sem
                       /\ pc' = [pc EXCEPT ![i] =
                                    IF a.admitted THEN "admitted" ELSE "queued"]
                       /\ acquires' = [acquires EXCEPT ![i] = @ + 1]
                       /\ ticket' = [ticket EXCEPT ![i] =
                                        IF a.admitted THEN 0 ELSE Arrivals + 1]
                       /\ UNCHANGED << counters, fired, result, batch >>
    /\ UNCHANGED << cache, content, category, err, releases, calls, mainVars >>

\* computeFileHash fails and the failure stays with the file: the promise of
\* the batch does not follow.
HashFail_Isolated(i) ==
    /\ phase = "analyzing"
    /\ ~Resuming
    /\ pc[i] = "hashing"
    /\ pc' = [pc EXCEPT ![i] = "failed"]
    /\ err' = [err EXCEPT ![i] = "hash"]
    /\ UNCHANGED << cache, semaphore, localVars, result, counters, fired,
                    batch, acquires, ticket, releases, calls, mainVars >>

\* analyzeFile, line 168: computeFileHash fails to read the file; the error
\* leaves analyzeFile before the limiter is touched.
HashFail(i) ==
    /\ phase = "analyzing"
    /\ ~Resuming
    /\ pc[i] = "hashing"
    /\ pc' = [pc EXCEPT ![i] = "failed"]
    /\ err' = [err EXCEPT ![i] = "hash"]
    /\ batch' = SettleBatch(batch, pc', result, counters, i, "hash")
    /\ UNCHANGED << cache, semaphore, localVars, result, counters, fired,
                    acquires, ticket, releases, calls, mainVars >>

\* analyzeFile, lines 188-191: the continuation after await
\* semaphore.acquire() runs and starts readFile.
Resume(i) ==
    /\ phase = "analyzing"
    /\ pc[i] = "admitted"
    /\ pc' = [pc EXCEPT ![i] = "reading"]
    /\ ticket' = [ticket EXCEPT ![i] = 0]
    /\ batch' = IF Rejecting /\ \A k \in Tasks \ {i} : pc[k] # "admitted"
                THEN [batch EXCEPT !.state = "rejected"]
                ELSE batch
    /\ UNCHANGED << cache, semaphore, localVars, result, err, counters, fired,
                    acquires, releases, calls, mainVars >>

\* What every way out of the guarded block does last: the finally clause
\* releases the slot, the task settles, the batch's promise follows.  When
\* a failing task hands its slot to a queued task, the rejection reaches the
\* batch's promise only after the continuation of the admitted task has run
\* (Resume): until then the batch is pending with the error on its way.
LeaveMissPath(i, outcome, cause, result2, counters2) ==
    LET exit == ExitMissPath(semaphore, outcome)
        pc2  == Admit([pc EXCEPT ![i] = outcome], exit.next)
    IN  /\ semaphore' = exit.sem
        /\ pc' = pc2
        /\ releases' = [releases EXCEPT ![i] = IF exit.released THEN @ + 1 ELSE @]
        /\ err' = [err EXCEPT ![i] = cause]
        /\ result' = result2
        /\ counters' = counters2
        /\ batch' = IF outcome = "failed" /\ exit.next # << >>
                       /\ batch.state = "pending"
                    THEN [batch EXCEPT
                             !.error = << [task |-> i, cause |-> cause] >>]
                    ELSE SettleBatch(batch, pc2, result2, counters2, i, cause)

\* analyzeFile, lines 191-226: readFile has returned the content.  The
\* category is detected; an oversized or minified file is skipped with a
\* placeholder entry, any other file is sent to the external service.
ReadDone(i) ==
    /\ phase = "analyzing"
    /\ ~Resuming
    /\ pc[i] = "reading"
    /\ LET c   == disk[files[i]]
           cat == detectCategory(files[i], c)
       IN  /\ content' = [content EXCEPT ![i] = c]
           /\ category' = [category EXCEPT ![i] = cat]
           /\ IF ShouldSkip(c)
              THEN LET summary == SkippedSummary(files[i], cat)
                       entry   == MakeEntry(hash[i], summary, cat, run, ZeroTokens)
                   IN  /\ cache' = setCacheEntry(cache, files[i], entry)
                       /\ fired' = [fired EXCEPT ![i] = @ + 1]
                       /\ LeaveMissPath(i, "skipped", "none",
                              [result EXCEPT ![i] =
                                  [analysis  |-> MakeAnalysis(files[i], cat, summary,
                                                              hash[i], ZeroTokens),
                                   fromCache |-> FALSE]],
                              OnProgress(counters, files[i], FALSE, Len(files)))
                       /\ UNCHANGED calls
              ELSE /\ pc' = [pc EXCEPT ![i] = "calling"]
                   /\ calls' = [calls EXCEPT ![i] = @ + 1]
                   /\ UNCHANGED << cache, semaphore, result, err, counters, fired,
                                   batch, releases >>
    /\ UNCHANGED << hash, cachedEntry, acquires, ticket, mainVars >>

\* analyzeFile, line 191: readFile fails inside the guarded block.
ReadFail(i) ==
    /\ phase = "analyzing"
    /\ ~Resuming
    /\ pc[i] = "reading"
    /\ LeaveMissPath(i, "failed", "read", result, counters)
    /\ UNCHANGED << cache, localVars, fired, acquires, ticket, calls, mainVars >>

\* analyzeFile, lines 222-256: generateText has returned; the entry is
\* written, the progress callback fires, the analysis is returned.
ServiceReply(i, reply) ==
    /\ phase = "analyzing"
    /\ ~Resuming
    /\ pc[i] = "calling"
    /\ LET tokens  == ReplyTokens(reply)
           summary == ServiceSummary(reply)
           entry   == MakeEntry(hash[i], summary, category[i], run, tokens)
       IN  /\ cache' = setCacheEntry(cache, files[i], entry)
           /\ fired' = [fired EXCEPT ![i] = @ + 1]
           /\ LeaveMissPath(i, "analyzed", "none",
                  [result EXCEPT ![i] =
                      [analysis  |-> MakeAnalysis(files[i], category[i], summary,
                                                  hash[i], tokens),
                       fromCache |-> FALSE]],
                  OnProgress(counters, files[i], FALSE, Len(files)))
    /\ UNCHANGED << localVars, acquires, ticket, calls, mainVars >>

\* generateText fails and analyzeFile calls it once more.
ServiceFail_Retry(i) ==
    /\ phase = "analyzing"
    /\ ~Resuming
    /\ pc[i] = "calling"
    /\ calls[i] < 2
    /\ calls' = [calls EXCEPT ![i] = @ + 1]
    /\ UNCHANGED << cache, semaphore, pc, localVars, result, err, counters,
                    fired, batch, acquires, ticket, releases, mainVars >>

\* analyzeFile, line 222: generateText fails.
ServiceFail(i) ==
    /\ phase = "analyzing"
    /\ ~Resuming
    /\ pc[i] = "calling"
    /\ LeaveMissPath(i, "failed", "service", result, counters)
    /\ UNCHANGED << cache, localVars, fired, acquires, ticket, calls, mainVars >>

\* ------------------------------------------------- one batch, any store

\* The entry a store may hold for a path before the batch: one written by
\* an earlier run that found the oversized content of Contents there, so
\* that a path is a hit, a miss with a stale entry or a miss with no entry
\* according to its content and to the store.
StoredEntries ==
    { MakeEntry(c.digest, [kind |-> "text", text |-> 0], "other", 0,
                [input |-> 1, output |-> 1]) : c \in { d \in Contents : d.id = 2 } }

\* The stores over the paths P: every partial mapping to StoredEntries.
\* analyzeFile reads and writes a store by key only, so one order of the
\* keys stands for all of them here; pruneCache, which walks the keys, is
\* given every order in InitPrune.
Stores(P) ==
    { [version |-> CACHE_VERSION, kind |-> "mapping", entries |-> m,
       keys |-> Ascending(DOMAIN m)] :
        m \in UNION { [S -> StoredEntries] : S \in SUBSET P } }

\* analyzeFiles, lines 275-281: the counters are new and files.map has
\* started one task per file, each suspended in computeFileHash.
NewBatch(n) ==
    [pc          |-> [i \in 1..n |-> "hashing"],
     hash        |-> [i \in 1..n |-> 0],
     cachedEntry |-> [i \in 1..n |-> Undefined],
     content     |-> [i \in 1..n |-> Undefined],
     category    |-> [i \in 1..n |-> "other"],
     result      |-> [i \in 1..n |-> NoResult],
     err         |-> [i \in 1..n |-> "none"],
     fired       |-> [i \in 1..n |-> 0],
     acquires    |-> [i \in 1..n |-> 0],
     ticket      |-> [i \in 1..n |-> 0],
     releases    |-> [i \in 1..n |-> 0],
     calls       |-> [i \in 1..n |-> 0],
     counters    |-> NoCounters,
     batch       |-> PendingBatch]

StartTasks(n) ==
    /\ pc = NewBatch(n).pc
    /\ hash = NewBatch(n).hash
    /\ cachedEntry = NewBatch(n).cachedEntry
    /\ content = NewBatch(n).content
    /\ category = NewBatch(n).category
    /\ result = NewBatch(n).result
    /\ err = NewBatch(n).err
    /\ fired = NewBatch(n).fired
    /\ acquires = NewBatch(n).acquires
    /\ ticket = NewBatch(n).ticket
    /\ releases = NewBatch(n).releases
    /\ calls = NewBatch(n).calls
    /\ counters = NewBatch(n).counters
    /\ batch = NewBatch(n).batch

\* The contents tried in a single batch: one analyzed, one skipped.
BatchContents == { c \in Contents : c.id \in {1, 2} }

Init ==
    /\ files = [i \in 1..NumFiles |-> i]
    /\ disk \in [1..NumFiles -> BatchContents]
    /\ cache \in Stores(1..NumFiles)
    /\ semaphore \in { NewSemaphore(Number(c)) : c \in 1..MaxConcurrency }
    /\ StartTasks(NumFiles)
    /\ phase = "analyzing"
    /\ run = 1
    /\ cacheFile = [kind |-> "missing"]
    /\ history = <<>>
    /\ MemoryAtStart

Next ==
    \/ \E i \in Tasks : HashDone(i)
    \/ \E i \in Tasks : HashFail(i)
    \/ \E i \in Tasks : Resume(i)
    \/ \E i \in Tasks : ReadDone(i)
    \/ \E i \in Tasks : ReadFail(i)
    \/ \E i \in Tasks : \E reply \in ServiceReplies : ServiceReply(i, reply)
    \/ \E i \in Tasks : ServiceFail(i)

Spec == Init /\ [][Next]_vars

\* A batch in which the first file is oversized, with or without an entry of
\* its hash in the store, so that its task is a cache hit or is skipped
\* while it holds a slot, and every other file is sent to the service.
InitFair ==
    /\ files = [i \in 1..NumFiles |-> i]
    /\ disk \in { d \in [1..NumFiles -> BatchContents] :
                    /\ ShouldSkip(d[1])
                    /\ \A i \in 2..NumFiles : ~ShouldSkip(d[i]) }
    /\ cache \in Stores({1})
    /\ semaphore \in { NewSemaphore(Number(c)) : c \in 1..MaxConcurrency }
    /\ StartTasks(NumFiles)
    /\ phase = "analyzing"
    /\ run = 1
    /\ cacheFile = [kind |-> "missing"]
    /\ history = <<>>
    /\ MemoryAtStart

\* The batch with the progress the event loop and the environment give: as
\* long as a task can take a step, one is taken; a read of the file system
\* settles, a continuation that is ready runs, and a call of the external
\* service returns, with a result or with a failure.
SpecFair == InitFair /\ [][Next]_vars /\ WF_vars(Next)


\* --------------------------------------------------- main, run after run

Paths == 1..NumPaths

\* A path that is not a file below the root.
Missing == [missing |-> TRUE]

\* What a path may hold in the multi-run specification: a content that is
\* analyzed, one that is skipped as minified, or no file.
MainContents == { c \in Contents : c.id \in {1, 3} } \cup {Missing}

\* discoverFiles: the files below the root, deduplicated and sorted.
discoverFiles(d) == Ascending({ p \in DOMAIN d : d[p] # Missing })

\* The number of generateText calls of the current batch.
ServiceCalls == LET RECURSIVE Sum(_)
                    Sum(k) == IF k = 0 THEN 0 ELSE calls[k] + Sum(k - 1)
                IN  Sum(Len(calls))

taskVars ==
    << pc, hash, cachedEntry, content, category, result, err, fired, acquires,
       ticket, releases, calls, counters, batch >>

\* The values of the task variables after files.map started n tasks.
TasksStarted(n) ==
    /\ pc' = NewBatch(n).pc
    /\ hash' = NewBatch(n).hash
    /\ cachedEntry' = NewBatch(n).cachedEntry
    /\ content' = NewBatch(n).content
    /\ category' = NewBatch(n).category
    /\ result' = NewBatch(n).result
    /\ err' = NewBatch(n).err
    /\ fired' = NewBatch(n).fired
    /\ acquires' = NewBatch(n).acquires
    /\ ticket' = NewBatch(n).ticket
    /\ releases' = NewBatch(n).releases
    /\ calls' = NewBatch(n).calls
    /\ counters' = NewBatch(n).counters
    /\ batch' = NewBatch(n).batch

\* main, lines 128-134: discovery; with no file the process exits at once.
MainDiscover ==
    /\ phase = "start"
    /\ files' = discoverFiles(disk)
    /\ phase' = IF Len(files') = 0 THEN "exited" ELSE "discovered"
    /\ UNCHANGED << disk, cache, semaphore, taskVars, run, cacheFile, history,
                    removedFromCache, cacheIO, tree,
       foldersWithContent, rootDir, config >>

\* main, lines 137-140: the cache is loaded and its entries are counted;
\* Object.keys throws when the loaded record has no entries.
MainLoad ==
    /\ phase = "discovered"
    /\ cache' = loadCache(cacheFile)
    /\ cacheIO' = [cacheIO EXCEPT !.loads = @ + 1]
    /\ phase' = IF cache'.kind = "mapping" THEN "loaded" ELSE "failed"
    /\ UNCHANGED << files, disk, semaphore, taskVars, run, cacheFile, history,
                    removedFromCache, tree,
       foldersWithContent, rootDir, config >>

\* main, lines 143-147: the entries of files that are gone are pruned.
MainPrune ==
    /\ phase = "loaded"
    /\ cache' = pruneCache(cache, files).cache
    /\ removedFromCache' = pruneCache(cache, files).removed
    /\ phase' = "pruned"
    /\ UNCHANGED << files, disk, semaphore, taskVars, run, cacheFile, history,
                    cacheIO, tree,
       foldersWithContent, rootDir, config >>

\* main, lines 152-157, analyzeFiles, lines 275-281: the batch starts with a
\* new limiter of the configured capacity.
MainAnalyze ==
    /\ phase = "pruned"
    /\ semaphore' = NewSemaphore(config.concurrency)
    /\ TasksStarted(Len(files))
    /\ phase' = "analyzing"
    /\ UNCHANGED << files, disk, cache, run, cacheFile, history,
                    removedFromCache, cacheIO, tree,
       foldersWithContent, rootDir, config >>

\* main, lines 159-176: analyzeFiles has returned; the folder tree is built,
\* the folders with content are listed and the documents are written.
MainWrite ==
    /\ phase = "analyzing"
    /\ batch.state = "fulfilled"
    /\ LET listed == getFoldersWithContent(buildFolderTree(batch.analyses))
       IN  /\ ~listed.thrown
           /\ tree' = listed.tree
           /\ foldersWithContent' = listed.result
    /\ phase' = "written"
    /\ UNCHANGED << files, disk, cache, semaphore, taskVars, run, cacheFile,
                    history, removedFromCache, cacheIO, rootDir, config >>

\* main, lines 168-176, and main().catch: listing the folders throws and no
\* list is assigned, or writing a document fails; the process exits with an
\* error.
MainWriteFail ==
    /\ phase = "analyzing"
    /\ batch.state = "fulfilled"
    /\ LET listed == getFoldersWithContent(buildFolderTree(batch.analyses))
       IN  /\ tree' = listed.tree
           /\ foldersWithContent' =
                  IF listed.thrown THEN foldersWithContent ELSE listed.result
    /\ phase' = "failed"
    /\ UNCHANGED << files, disk, cache, semaphore, taskVars, run, cacheFile,
                    history, removedFromCache, cacheIO, rootDir, config >>

\* main, line 179: the cache is saved.
MainSave ==
    /\ phase = "written"
    /\ cacheFile' = saveCache(cache)
    /\ cacheIO' = [cacheIO EXCEPT !.saves = @ + 1]
    /\ phase' = "done"
    /\ UNCHANGED << files, disk, cache, semaphore, taskVars, run, history,
                    removedFromCache, tree,
       foldersWithContent, rootDir, config >>

\* main, line 179, and main().catch: writing the cache file fails and the
\* process exits with an error.  writeFile opens the file with flag "w":
\* when the open fails the file is as it was; when the write fails after
\* the open, the file holds the part of the text that was written, which
\* is no JSON, since the text ends with the brace that closes the object.
MainSaveFail ==
    /\ phase = "written"
    /\ cacheFile' \in {cacheFile, [kind |-> "text", json |-> << >>]}
    /\ cacheIO' = [cacheIO EXCEPT !.saves = @ + 1]
    /\ phase' = "failed"
    /\ UNCHANGED << files, disk, cache, semaphore, taskVars, run,
                    history, removedFromCache, tree,
       foldersWithContent, rootDir, config >>

MainCatch_Saves ==
    /\ phase = "analyzing"
    /\ batch.state = "rejected"
    /\ cacheFile' = saveCache(cache)
    /\ phase' = "failed"
    /\ UNCHANGED << files, disk, cache, semaphore, taskVars, run, history,
                    removedFromCache, cacheIO, tree,
       foldersWithContent, rootDir, config >>

\* main().catch, lines 238-241: analyzeFiles was rejected; the process exits
\* and with it every task still under way.
MainCatch ==
    /\ phase = "analyzing"
    /\ batch.state = "rejected"
    /\ phase' = "failed"
    /\ UNCHANGED << files, disk, cache, semaphore, taskVars, run, cacheFile,
                    history, removedFromCache, cacheIO, tree,
       foldersWithContent, rootDir, config >>

\* The disks that differ from d in at most one path.
Edits(d) ==
    { e \in [DOMAIN d -> MainContents] :
        Cardinality({ p \in DOMAIN d : e[p] # d[p] }) <= 1 }

\* The process has ended; the tree is edited or not, and the next run starts
\* with nothing in memory.  history keeps what the ended run saw: its files,
\* their contents, how it ended, the cache file it left, the external calls
\* it made and whether every file it resolved came from the cache.  The
\* command is given again as it was, so main builds the same config from it.
NextRun(d, commandLine) ==
    /\ phase \in {"done", "failed", "exited"}
    /\ run < MaxRuns
    /\ history' = << [files |-> files, disk |-> disk, outcome |-> phase,
                      saved |-> cacheFile] >>
    /\ run' = run + 1
    /\ disk' = d
    /\ files' = <<>>
    /\ cache' = FreshCache
    /\ semaphore' = NewSemaphore(Number(1))
    /\ TasksStarted(0)
    /\ removedFromCache' = << >>
    /\ cacheIO' = NoCacheIO
    /\ tree' = EmptyTree
    /\ foldersWithContent' = << >>
    /\ phase' = "start"
    /\ Configs[commandLine] = config
    /\ config' = Configs[commandLine]
    /\ UNCHANGED << cacheFile, rootDir >>

InitMain ==
    /\ files = <<>>
    /\ disk \in [Paths -> MainContents]
    /\ cache = FreshCache
    /\ semaphore = NewSemaphore(Number(1))
    /\ StartTasks(0)
    /\ phase = "start"
    /\ run = 1
    /\ cacheFile = [kind |-> "missing"]
    /\ history = <<>>
    /\ removedFromCache = << >>
    /\ cacheIO = NoCacheIO
    /\ tree = EmptyTree
    /\ foldersWithContent = << >>
    /\ rootDir = PlainRoot
    /\ config \in Range(Configs)

\* The steps of the runs of main.  From the moment analyzeFiles is rejected
\* the handler of main().catch, lines 238-241, is in the microtask queue; it
\* ends the process before the completion of any file read or service call
\* is delivered, so no task of a run takes a step after the rejection.
NextMain ==
    \/ MainDiscover
    \/ MainLoad
    \/ MainPrune
    \/ MainAnalyze
    \/ batch.state # "rejected" /\ \E i \in Tasks : HashDone(i)
    \/ batch.state # "rejected" /\ \E i \in Tasks : HashFail(i)
    \/ batch.state # "rejected" /\ \E i \in Tasks : Resume(i)
    \/ batch.state # "rejected" /\ \E i \in Tasks : ReadDone(i)
    \/ batch.state # "rejected" /\ \E i \in Tasks : ReadFail(i)
    \/ batch.state # "rejected" /\ \E i \in Tasks :
           \E reply \in ServiceReplies : ServiceReply(i, reply)
    \/ batch.state # "rejected" /\ \E i \in Tasks : ServiceFail(i)
    \/ MainWrite
    \/ MainWriteFail
    \/ MainSave
    \/ MainSaveFail
    \/ MainCatch
    \/ \E d \in Edits(disk) : \E l \in CommandLines : NextRun(d, l)

SpecMain == InitMain /\ [][NextMain]_vars

\* ------------------------------------------------- loadCache, any file

\* The version properties tried: absent, the current number, its two
\* neighbours, and the current number as a string.
FileVersions ==
    { [t |-> "undefined", v |-> 0], [t |-> "string", v |-> CACHE_VERSION] }
    \cup { NumberVersion(n) : n \in (CACHE_VERSION - 1)..(CACHE_VERSION + 1) }

\* The entries every run may have written for a path: one of an analyzed and
\* one of a skipped file.
WrittenEntries ==
    StoredEntries \cup
    { MakeEntry(c.digest, SkippedSummary(0, "other"), "other", 0, ZeroTokens) :
        c \in { d \in Contents : d.id = 2 } }

\* The cache files tried: missing, unreadable, not JSON, JSON that is no
\* object, and objects of every version with entries that are a mapping,
\* absent or null.
CacheFiles ==
    { [kind |-> "missing"], [kind |-> "unreadable"],
      [kind |-> "text", json |-> <<>>],
      [kind |-> "text", json |-> << [t |-> "null"] >>],
      [kind |-> "text", json |-> << [t |-> "scalar"] >>] }
    \cup
    UNION { { [kind |-> "text",
                json |-> << [t |-> "object", version |-> v, kind |-> "mapping",
                             entries |-> m, keys |-> o] >>] :
                v \in FileVersions, o \in KeyOrders(DOMAIN m) } :
            m \in UNION { [S -> WrittenEntries] : S \in SUBSET Paths } }
    \cup
    { [kind |-> "text",
       json |-> << [t |-> "object", version |-> v, kind |-> k,
                    entries |-> <<>>, keys |-> <<>>] >>] :
        v \in FileVersions, k \in {"undefined", "null"} }

InitLoad ==
    /\ files = [i \in Paths |-> i]
    /\ disk = [p \in Paths |-> CHOOSE c \in Contents : c.id = 1]
    /\ cache = FreshCache
    /\ semaphore = NewSemaphore(Number(1))
    /\ StartTasks(0)
    /\ phase = "discovered"
    /\ run = 1
    /\ cacheFile \in CacheFiles
    /\ history = <<>>
    /\ MemoryAtStart

SpecLoad == InitLoad /\ [][MainLoad]_vars

\* ------------------------------------------- analyzeFile, any one file

\* Contents around the two thresholds of the skip guard: every length with
\* every number of lines a text of that length can have.
GuardContents ==
    { c \in [id : {4}, length : {0, 2000, 2500, 2501, 99999, 100000, 100001},
             lines : {1, 4, 5, 200}, digest : {4}, preds : {{}}] :
        c.length >= c.lines - 1 }

\* Contents of ordinary size that satisfy any set of content predicates a
\* text can satisfy together: the content predicate of type asks for a text
\* without "function", that of component for one with it.
ClassifyContents ==
    { c \in [id : {5}, length : {1200}, lines : {40}, digest : {5},
             preds : SUBSET ContentCategories] :
        ~({"type", "component"} \subseteq c.preds) }

\* A batch of one file: any path with any content of ordinary size, or
\* path 1 with a content around the thresholds; the store is empty.
InitFile ==
    /\ \E p \in 1..(2 ^ Len(PathBits)) :
          \E c \in ClassifyContents \cup GuardContents :
             /\ c \in GuardContents => p = 1
             /\ files = << p >>
             /\ disk = [q \in {p} |-> c]
    /\ cache = FreshCache
    /\ semaphore = NewSemaphore(Number(1))
    /\ StartTasks(1)
    /\ phase = "analyzing"
    /\ run = 1
    /\ cacheFile = [kind |-> "missing"]
    /\ history = << >>
    /\ MemoryAtStart

SpecFile == InitFile /\ [][Next]_vars

\* ------------------------------------------- pruneCache, any store and list

\* The lists over S of at most n elements, repetitions included.
ListsUpTo(S, n) == UNION { [1..k -> S] : k \in 0..n }

\* pruneCache is applied to a store loaded from a file that holds any entries
\* for the paths, and to any list of paths, one of which is in no store.
InitPrune ==
    /\ files \in ListsUpTo(1..(NumPaths + 1), MaxCurrentFiles)
    /\ disk = [p \in Paths |-> Missing]
    /\ cacheFile \in
          UNION { { saveCache([version |-> CACHE_VERSION, kind |-> "mapping",
                               entries |-> m, keys |-> o]) :
                      o \in KeyOrders(DOMAIN m) } :
                  m \in UNION { [S -> WrittenEntries] : S \in SUBSET Paths } }
    /\ cache = loadCache(cacheFile)
    /\ semaphore = NewSemaphore(Number(1))
    /\ StartTasks(0)
    /\ phase = "loaded"
    /\ run = 1
    /\ history = << >>
    /\ removedFromCache = << >>
    /\ cacheIO = [loads |-> 1, saves |-> 0]
    /\ tree = EmptyTree
    /\ foldersWithContent = << >>
    /\ rootDir = PlainRoot
    /\ config = DEFAULT_CONFIG

SpecPrune == InitPrune /\ [][MainPrune]_vars

\* ------------------------------------------ buildFolderTree, any list

\* A list of analyses, one for each path of the list paths; the summary
\* tells apart two analyses of the same path.
AnalysesOf(paths) ==
    [k \in DOMAIN paths |->
        MakeAnalysis(paths[k], detectCategory(paths[k], [preds |-> {}]),
                     [kind |-> "text", text |-> k], 0, ZeroTokens)]

\* analyzeFiles has returned a list of analyses: any list of at most
\* MaxAnalyses analyses of the paths of PathTable, in any order and with
\* repetitions.
InitTree ==
    /\ files \in ListsUpTo(DOMAIN PathTable, MaxAnalyses)
    /\ disk = [p \in Range(files) |-> Missing]
    /\ cache = FreshCache
    /\ semaphore = NewSemaphore(Number(1))
    /\ pc = << >> /\ hash = << >> /\ cachedEntry = << >> /\ content = << >>
    /\ category = << >> /\ result = << >> /\ err = << >> /\ fired = << >>
    /\ acquires = << >> /\ ticket = << >> /\ releases = << >> /\ calls = << >>
    /\ counters = NoCounters
    /\ batch = [state |-> "fulfilled", error |-> << >>,
                analyses |-> AnalysesOf(files), cached |-> Len(files),
                analyzed |-> 0]
    /\ phase = "analyzing"
    /\ run = 1
    /\ cacheFile = [kind |-> "missing"]
    /\ history = << >>
    /\ removedFromCache = << >>
    /\ cacheIO = [loads |-> 1, saves |-> 0]
    /\ tree = EmptyTree
    /\ foldersWithContent = << >>
    /\ rootDir = PlainRoot
    /\ config = DEFAULT_CONFIG

SpecTree == InitTree /\ [][MainWrite]_vars

\* ------------------------------------------------------------- properties

HoldingTasks == { i \in Tasks : pc[i] \in Holding }
QueuedTasks  == { i \in Tasks : pc[i] = "queued" }
FailedTasks  == { i \in Tasks : pc[i] = "failed" }
DoneTasks    == { i \in Tasks : pc[i] \in Fulfilled }

\* The entry task i found in the store matches the hash it computed.
FoundValid(i) ==
    /\ cachedEntry[i] # Undefined
    /\ cachedEntry[i].hash = hash[i]

\* Task i has computed its hash and looked its entry up.
Checked(i) == pc[i] # "hashing" /\ err[i] # "hash"

\* C1: for a limiter of capacity C >= 1, in every reachable state the number
\* of tasks that hold a slot (acquired and not yet released) is at most C,
\* hence so is the number of external calls in flight.
C1_BoundedConcurrency ==
    /\ Cardinality(HoldingTasks) <= semaphore.maxConcurrent[1]
    /\ Cardinality({ i \in Tasks : pc[i] = "calling" }) <= semaphore.maxConcurrent[1]

\* C1 witness: every slot of a capacity above 1 is held, an external call is
\* in flight, and a task is waiting.
C1_Witness ==
    /\ semaphore.maxConcurrent[1] > 1
    /\ Cardinality(HoldingTasks) = semaphore.maxConcurrent[1]
    /\ \E i \in Tasks : pc[i] = "calling"
    /\ QueuedTasks # {}

\* C2, one step: a task that gets a slot out of the queue is the one that
\* called acquire first among the waiting tasks, and a task that gets a slot
\* on calling acquire finds no task waiting and a slot that is free, a slot
\* handed to a task that has not resumed yet counting as taken.
FifoStep ==
    \A i \in Tasks :
        (pc'[i] = "admitted" /\ pc[i] # "admitted") =>
            /\ pc[i] = "queued" =>
                  \A j \in QueuedTasks : ticket[i] <= ticket[j]
            /\ pc[i] = "hashing" =>
                  /\ QueuedTasks = {}
                  /\ Cardinality(HoldingTasks) < semaphore.maxConcurrent[1]

\* C2: slot admission is FIFO: tasks are admitted in the order in which they
\* called acquire, and a later caller is never admitted before a queued one.
C2_FifoAdmission == [][FifoStep]_vars

\* C2 witness: a release has handed the slot to the oldest waiting task, which
\* has not resumed yet, while a task that called acquire later still waits.
C2_Witness ==
    \E i, j \in Tasks :
        /\ pc[i] = "admitted" /\ ticket[i] > 0
        /\ pc[j] = "queued" /\ ticket[j] > ticket[i]
        /\ \E k \in Tasks : releases[k] = 1

\* C3: a task that acquired a slot releases it exactly once, however it
\* leaves the miss path; a task releases nothing before it leaves, and a task
\* that never acquired a slot never releases one.
C3_ReleaseExactlyOnce ==
    \A i \in Tasks :
        /\ acquires[i] \in {0, 1}
        /\ pc[i] \in Terminal => releases[i] = acquires[i]
        /\ pc[i] \notin Terminal => releases[i] = 0

\* C3 witness: three tasks left the miss path in three ways (skipped, failed
\* reading, failed in the service), each with one release.
C3_Witness ==
    \E i, j, k \in Tasks :
        /\ pc[i] = "skipped" /\ releases[i] = 1
        /\ err[j] = "read" /\ releases[j] = 1
        /\ err[k] = "service" /\ releases[k] = 1

\* C4: a task whose file has a valid cache entry never calls acquire and never
\* waits: it is a cache hit, with fromCache = true, as soon as its hash is
\* computed, whatever the limiter's state.
C4_HitBypassesLimiter ==
    \A i \in Tasks :
        (Checked(i) /\ FoundValid(i)) =>
            /\ pc[i] = "hit"
            /\ result[i].fromCache
            /\ acquires[i] = 0
            /\ ticket[i] = 0

\* C4 witness: every slot is held, a task is queued, no miss task has
\* finished, and a cache-hit task has completed.
C4_Witness ==
    /\ Cardinality(HoldingTasks) = semaphore.maxConcurrent[1]
    /\ QueuedTasks # {}
    /\ \E i \in Tasks : pc[i] = "hit" /\ FoundValid(i)
    /\ \A i \in Tasks : pc[i] \in Terminal => pc[i] = "hit"

\* C5: when analyzeFiles fulfils, the results list is as long as the input
\* list and results[i] is the analysis task i returned for input file i.
C5_ResultsInInputOrder ==
    batch.state = "fulfilled" =>
        /\ Len(batch.analyses) = Len(files)
        /\ \A i \in Tasks :
              /\ batch.analyses[i] = result[i].analysis
              /\ batch.analyses[i].relativePath = files[i]
              /\ batch.analyses[i].hash = disk[files[i]].digest

\* C5 witness: a fulfilled batch that mixes hits and misses and whose first
\* input file completed last.
C5_Witness ==
    /\ batch.state = "fulfilled"
    /\ \E i, j \in Tasks : pc[i] = "hit" /\ pc[j] = "analyzed"
    /\ pc[1] # "hit"
    /\ counters.last[1].file = files[1]

\* C6: the progress callback is invoked once for each completed file and
\* never for a failed one; each invocation carries the number of invocations
\* so far (1, 2, 3, ...) and the total N; a fulfilled batch has invoked it N
\* times.
C6_ProgressCallback ==
    /\ \A i \in Tasks : fired[i] = IF pc[i] \in Fulfilled THEN 1 ELSE 0
    /\ counters.invoked = Cardinality(DoneTasks)
    /\ counters.invoked = 0 <=> counters.last = <<>>
    /\ counters.invoked > 0 =>
          /\ counters.last[1].current = counters.invoked
          /\ counters.last[1].total = Len(files)
          /\ \E i \in DoneTasks :
                /\ counters.last[1].file = files[i]
                /\ counters.last[1].cached = result[i].fromCache
    /\ batch.state = "fulfilled" => counters.invoked = Len(files)

\* C6 witness: one file failed, every other file completed, and the latest
\* invocation carries the count of the completed files.
C6_Witness ==
    /\ Cardinality(FailedTasks) = 1
    /\ Cardinality(DoneTasks) = Len(files) - 1
    /\ counters.last # <<>>
    /\ counters.last[1].current = Len(files) - 1

\* C7: if the external call fails for a file, analyzeFiles is rejected and
\* returns no results list, however many other files completed; the error
\* is the one of the first task that failed, hence that file's error when
\* the file is the only one to fail.  The rejection reaches the promise of
\* analyzeFiles at once, or, when the failing task handed its slot to a
\* queued task, right after that task has resumed: no other step of the
\* batch comes in between and the batch is never fulfilled.
C7_FailFast ==
    /\ [](\A i \in Tasks :
            err[i] = "service" =>
                /\ batch.state = "rejected" \/ Rejecting
                /\ batch.analyses = <<>>
                /\ Len(batch.error) = 1
                /\ pc[batch.error[1].task] = "failed"
                /\ err[batch.error[1].task] = batch.error[1].cause
                /\ FailedTasks = {i} => batch.error[1].task = i)
    /\ [](Rejecting => Cardinality({ k \in Tasks : pc[k] = "admitted" }) = 1)
    /\ [][Rejecting => batch'.state = "rejected"]_vars

\* C7 witness: one external call failed and every other file of the batch
\* completed, some before the failure was reported and some after.
C7_Witness ==
    \E i \in Tasks :
        /\ err[i] = "service"
        /\ \A j \in Tasks \ {i} : pc[j] \in Fulfilled
        /\ counters.last[1].current = Len(files) - 1
        /\ \E j \in Tasks : pc[j] = "analyzed"

\* C9: the external service is called for a file only when the store has no
\* entry for its path or the stored hash differs from the hash computed in
\* this run; a file with an entry of the same hash is returned from the
\* cache with the stored category, summary and token usage, without a slot.
C9_HashGated ==
    \A i \in Tasks :
        /\ Checked(i) => hash[i] = disk[files[i]].digest
        /\ (calls[i] > 0 \/ acquires[i] > 0) =>
              (cachedEntry[i] = Undefined \/ cachedEntry[i].hash # hash[i])
        /\ (pc[i] \in Fulfilled /\ result[i].fromCache) => FoundValid(i)
        /\ (Checked(i) /\ FoundValid(i)) =>
              /\ pc[i] = "hit"
              /\ result[i].fromCache
              /\ result[i].analysis.category = cachedEntry[i].category
              /\ result[i].analysis.summary = cachedEntry[i].summary
              /\ result[i].analysis.tokens = cachedEntry[i].tokens
              /\ result[i].analysis.hash = cachedEntry[i].hash
              /\ calls[i] = 0
              /\ acquires[i] = 0

\* C9 witness: one file had no entry and one a stale entry, both were sent to
\* the service; a third had a valid entry and was returned from the cache.
C9_Witness ==
    \E i, j, k \in Tasks :
        /\ cachedEntry[i] = Undefined /\ calls[i] = 1 /\ pc[i] = "analyzed"
        /\ cachedEntry[j] # Undefined /\ cachedEntry[j].hash # hash[j]
        /\ calls[j] = 1 /\ pc[j] = "analyzed"
        /\ pc[k] = "hit" /\ FoundValid(k)

\* The cache file parses to an object.
ParsedObject(file) ==
    /\ file.kind = "text"
    /\ file.json # <<>>
    /\ file.json[1].t = "object"

\* The run has loaded its cache.
Loaded == phase \in {"loaded", "failed"}

\* The earlier run completed cleanly and this run finds the same files with
\* the same contents.
SameAsCleanRun ==
    /\ history # <<>>
    /\ history[1].outcome = "done"
    /\ history[1].disk = disk
    /\ phase \notin {"start"}
    /\ history[1].files = files

\* C8: a run made after a clean run, with the same files and contents, makes
\* no external call, resolves every file from the cache, and saves a cache
\* file identical to the one the first run saved: the store it holds from
\* the load on is the one the first run saved, and so is the cache file at
\* every moment, unless the write of the second run fails, which may leave
\* a part of the same text.
C8_IdempotentRerun ==
    SameAsCleanRun =>
        /\ ServiceCalls = 0
        /\ \A i \in Tasks :
              /\ acquires[i] = 0
              /\ pc[i] \in {"hashing", "hit", "failed"}
              /\ pc[i] = "failed" => err[i] = "hash"
              /\ pc[i] = "hit" => result[i].fromCache
        /\ (phase = "failed" /\ cacheIO.saves = 1) \/ cacheFile = history[1].saved
        /\ phase \in {"analyzing", "written", "done", "failed"} =>
              saveCache(cache) = history[1].saved
        /\ phase \in {"written", "done"} =>
              /\ batch.cached = Len(files)
              /\ batch.analyzed = 0

\* C8 witness: the second run has saved its cache, after a first run that
\* analyzed one file through the service and skipped another.
C8_Witness ==
    /\ SameAsCleanRun
    /\ phase = "done"
    /\ run = 2
    /\ Len(files) > 1
    /\ \E p, q \in DOMAIN cache.entries :
          /\ cache.entries[p].summary.kind = "text"
          /\ cache.entries[p].analyzedAt = 1
          /\ cache.entries[q].summary.kind = "skipped"
          /\ cache.entries[q].analyzedAt = 1

\* C10: load on a cache file whose stored version differs from the current
\* constant returns a store with the current version and no entries,
\* whatever entries the file holds.
C10_VersionInvalidation ==
    (Loaded /\ ParsedObject(cacheFile)
            /\ (cacheFile.json[1].version.t # "number"
                \/ cacheFile.json[1].version.v # CACHE_VERSION)) =>
        /\ cache.version = CACHE_VERSION
        /\ cache.kind = "mapping"
        /\ cache.entries = <<>>

\* C10 witness: a file of the next version holding an entry for every path
\* has been loaded.
C10_Witness ==
    /\ phase = "loaded"
    /\ ParsedObject(cacheFile)
    /\ cacheFile.json[1].version = NumberVersion(CACHE_VERSION + 1)
    /\ cacheFile.json[1].kind = "mapping"
    /\ DOMAIN cacheFile.json[1].entries = Paths
    /\ cache.entries = <<>>

\* The cache file holds a store of the current version whose entries
\* property is a mapping.
ValidStoreFile(file) ==
    /\ ParsedObject(file)
    /\ file.json[1].version = NumberVersion(CACHE_VERSION)
    /\ file.json[1].kind = "mapping"

\* C11: load on a cache file that is missing, unreadable, not parseable or
\* structurally invalid (the current version without an entries mapping)
\* returns a fresh store, the current version with an empty entries mapping,
\* and the run goes on.
C11_LoadNeverFails ==
    (Loaded /\ ~ValidStoreFile(cacheFile)) =>
        /\ cache = FreshCache
        /\ phase = "loaded"

\* The entries of the store before pruneCache ran: those of the file it was
\* loaded from.
EntriesBeforePrune == cacheFile.json[1].entries

\* C12: pruneCache removes exactly the entries whose key is not in
\* currentFiles, returns exactly those keys, each once, and leaves every
\* other entry and the version as they were, for every store and every list,
\* lists with repeated paths and with paths not in the store included.
C12_PruneExact ==
    phase = "pruned" =>
        LET stale == (DOMAIN EntriesBeforePrune) \ Range(files)
        IN  /\ DOMAIN cache.entries = (DOMAIN EntriesBeforePrune) \cap Range(files)
            /\ \A p \in DOMAIN cache.entries :
                  cache.entries[p] = EntriesBeforePrune[p]
            /\ Range(removedFromCache) = stale
            /\ Len(removedFromCache) = Cardinality(stale)
            /\ cache.version = CACHE_VERSION
            /\ cache.kind = "mapping"

\* C12 witness: a list that repeats a path and names a path that is in no
\* store was pruned against; one entry was removed and one was kept.
C12_Witness ==
    /\ phase = "pruned"
    /\ \E j, k \in DOMAIN files : j # k /\ files[j] = files[k]
    /\ \E k \in DOMAIN files : files[k] \notin DOMAIN EntriesBeforePrune
    /\ removedFromCache # << >>
    /\ cache.entries # << >>

\* The relative paths that have an entry in a cache file.
FileKeys(file) ==
    IF ParsedObject(file) THEN DOMAIN file.json[1].entries ELSE {}

\* The cache file as the current run found it.
FileAtStart ==
    IF history = << >> THEN [kind |-> "missing"] ELSE history[1].saved

\* C13 as stated: after any run that exits without error, the run in which
\* discovery finds no file included, the cache file holds no entry for a
\* path that is not in the run's discovered list.
C13_NoStaleEntryAfterAnyRun ==
    phase \in {"done", "exited"} => FileKeys(cacheFile) \subseteq Range(files)

\* C13, amended: after a run that discovers at least one file and exits
\* without error, the cache file holds no entry for a path that is not in
\* the run's discovered list; a run whose discovery finds no file exits
\* without loading, pruning or saving and leaves the cache file as it was.
C13_NoStaleEntryAfterSave ==
    /\ phase = "done" =>
          /\ files # << >>
          /\ FileKeys(cacheFile) \subseteq Range(files)
    /\ phase = "exited" =>
          /\ files = << >>
          /\ cacheIO = NoCacheIO
          /\ removedFromCache = << >>
          /\ cacheFile = FileAtStart

\* C13 witness: a run that still found a file has saved its cache, and the
\* entry of a file the earlier run had saved and this run no longer found is
\* gone from the cache file.
C13_Witness ==
    /\ phase = "done"
    /\ files # << >>
    /\ \E p \in FileKeys(FileAtStart) :
          /\ p \notin Range(files)
          /\ p \notin FileKeys(cacheFile)
          /\ p \in Range(removedFromCache)

\* C14: in one run the cache file is loaded at most once, before any analysis
\* task starts, and saved at most once, only after every task has completed
\* and the documents have been written; until it is saved, and for good when
\* the batch fails, the cache file is exactly as the run found it.
C14_LoadOnceSaveOnce ==
    /\ cacheIO.loads <= 1
    /\ cacheIO.saves <= 1
    /\ Tasks # {} => cacheIO.loads = 1
    /\ cacheIO.loads = 0 => phase \in {"start", "discovered", "exited"}
    /\ cacheIO.saves = 1 =>
          /\ batch.state = "fulfilled"
          /\ \A i \in Tasks : pc[i] \in Fulfilled
          /\ tree.keys # << >>
          /\ phase \in {"done", "failed"}
    /\ cacheIO.saves = 0 => cacheFile = FileAtStart
    /\ batch.state = "rejected" =>
          /\ cacheIO.saves = 0
          /\ phase \in {"analyzing", "failed"}
          /\ cacheFile = FileAtStart
    /\ phase = "done" => cacheFile = saveCache(cache)

\* C14 witness: a run that started from a saved cache file has failed after
\* one of its tasks had put a new entry in the store; the file is the one
\* the run found, and the new entry is lost.
C14_Witness ==
    /\ phase = "failed"
    /\ batch.state = "rejected"
    /\ cacheIO = [loads |-> 1, saves |-> 0]
    /\ history # << >>
    /\ ParsedObject(history[1].saved)
    /\ cacheFile = history[1].saved
    /\ \E i \in Tasks : pc[i] \in {"analyzed", "skipped"}
    /\ saveCache(cache) # cacheFile

\* Task i has read its file and gone through the skip guard.
Guarded(i) == content[i] # Undefined

\* C15: on the miss path a file is skipped whenever its length exceeds
\* 100000 characters or its average line length (length divided by number of
\* lines) exceeds 500, whatever the length and the number of lines, texts of
\* fewer than 5 lines included.
C15_SkippedWhenLongOrLongLines ==
    \A i \in Tasks :
        (/\ Guarded(i)
         /\ \/ content[i].length > MaxContentLength
            \/ content[i].length > MaxAvgLineLength * content[i].lines) =>
            pc[i] = "skipped"

\* The earlier run ended cleanly, it left a skipped file's entry for the
\* path of task i, and the file's content is what it was in that run.
SkippedBefore(i) ==
    /\ history # << >>
    /\ history[1].outcome = "done"
    /\ files[i] \in FileKeys(history[1].saved)
    /\ history[1].saved.json[1].entries[files[i]].summary.kind = "skipped"
    /\ history[1].disk[files[i]] = disk[files[i]]

\* C16: a skipped file makes no external call, yields the placeholder result
\* with token usage {0, 0} and writes a cache entry with the file's current
\* hash and zero token usage; in the next run an unchanged file is a cache
\* hit that is neither read for the guard nor sent to the service.
C16_SkippedIsCached ==
    \A i \in Tasks :
        /\ pc[i] = "skipped" =>
              /\ calls[i] = 0
              /\ ~result[i].fromCache
              /\ result[i].analysis.summary =
                    SkippedSummary(files[i], category[i])
              /\ result[i].analysis.tokens = [input |-> 0, output |-> 0]
              /\ files[i] \in DOMAIN cache.entries
              /\ cache.entries[files[i]].hash = disk[files[i]].digest
              /\ cache.entries[files[i]].hash = hash[i]
              /\ cache.entries[files[i]].tokens = [input |-> 0, output |-> 0]
              /\ cache.entries[files[i]].summary = result[i].analysis.summary
              /\ phase = "done" => files[i] \in FileKeys(cacheFile)
        /\ SkippedBefore(i) =>
              /\ pc[i] \in {"hashing", "hit", "failed"}
              /\ pc[i] = "failed" => err[i] = "hash"
              /\ content[i] = Undefined
              /\ acquires[i] = 0
              /\ calls[i] = 0
              /\ pc[i] = "hit" =>
                    /\ result[i].fromCache
                    /\ result[i].analysis.summary.kind = "skipped"
                    /\ result[i].analysis.tokens = [input |-> 0, output |-> 0]

\* C16 witness: a file skipped in the first run and left unchanged was
\* returned from the cache in the second run, unread, and the run completed.
C16_Witness ==
    /\ run = 2
    /\ phase = "done"
    /\ \E i \in Tasks :
          /\ SkippedBefore(i)
          /\ history[1].saved.json[1].entries[files[i]].analyzedAt = 1
          /\ pc[i] = "hit"
          /\ content[i] = Undefined
          /\ calls[i] = 0

\* The categories whose predicate holds for the file of task i.
HoldsFor(i) == PathPreds(files[i]) \cup content[i].preds

\* C17: detectCategory returns, for every combination of truth values of the
\* nine category predicates, the category of the first predicate that holds
\* in the order schema, router, hook, component, type, config, service, util,
\* test, and other when none holds; a file whose path satisfies the schema
\* predicate and whose content is an exported interface is schema, not type.
C17_FirstMatchWins ==
    \A i \in Tasks :
        Guarded(i) =>
            /\ category[i] \in Range(CategoryOrder) \cup {"other"}
            /\ category[i] = "other" <=> HoldsFor(i) = {}
            /\ \A k \in DOMAIN CategoryOrder :
                  category[i] = CategoryOrder[k] <=>
                      /\ CategoryOrder[k] \in HoldsFor(i)
                      /\ \A j \in 1..(k - 1) : CategoryOrder[j] \notin HoldsFor(i)
            /\ ("schema" \in PathPreds(files[i]) /\ "type" \in content[i].preds)
                  => category[i] = "schema"
            /\ pc[i] \in {"skipped", "analyzed"} =>
                  /\ result[i].analysis.category = category[i]
                  /\ cache.entries[files[i]].category = category[i]

\* C17 witness: a file whose path satisfies only the schema predicate and
\* whose content satisfies only the type predicate was analyzed as schema.
C17_Witness ==
    \E i \in Tasks :
        /\ pc[i] = "analyzed"
        /\ PathPreds(files[i]) = {"schema"}
        /\ content[i].preds = {"type"}
        /\ result[i].analysis.category = "schema"

\* The folder an analysis belongs to: its relative path without the last
\* segment, the root sentinel when nothing is left.
FolderOf(analysis) ==
    LET parts == split(analysis.relativePath)
    IN  IF Len(parts) = 1 THEN Root ELSE SubSeq(parts, 1, Len(parts) - 1)

\* The parent of a folder other than the root.
ParentOf(key) ==
    IF Len(key) = 1 THEN Root ELSE SubSeq(key, 1, Len(key) - 1)

\* buildFolderTree has returned.
TreeBuilt == phase = "written"

\* C18: the tree buildFolderTree returns is ancestor-closed: with every
\* folder other than the root, the root sentinel and every proper prefix of
\* the folder's path are keys of the map, and a folder no analysis belongs
\* to has an empty files list.
C18_AncestorClosed ==
    TreeBuilt =>
        /\ Range(tree.keys) = DOMAIN tree.folders
        /\ \A key \in DOMAIN tree.folders :
              /\ key # Root =>
                    /\ Root \in DOMAIN tree.folders
                    /\ \A n \in 1..(Len(key) - 1) :
                          SubSeq(key, 1, n) \in DOMAIN tree.folders
              /\ (\A k \in DOMAIN batch.analyses :
                      FolderOf(batch.analyses[k]) # key) =>
                    tree.folders[key].files = << >>

\* C18 witness: the only file lies two folders deep; its folder has the file
\* and the root and the folder in between were made without any.
C18_Witness ==
    /\ TreeBuilt
    /\ Len(batch.analyses) = 1
    /\ DOMAIN tree.folders = { Root, << "sub" >>, << "sub", "deep" >> }
    /\ tree.folders[Root].files = << >>
    /\ tree.folders[<< "sub" >>].files = << >>
    /\ Len(tree.folders[<< "sub", "deep" >>].files) = 1

\* C19: every folder's depth is the number of segments of its path, 0 for
\* the root; every folder's subfolder list has no duplicate, is sorted, and
\* holds exactly the last segments of the folders of the map whose parent it
\* is; three files at the root, in sub and in sub/deep give the folders ".",
\* "sub", "sub/deep" of depths 0, 1, 2 with subfolders [sub], [deep], [].
C19_DepthAndSubfolders ==
    TreeBuilt =>
        /\ \A key \in DOMAIN tree.folders :
              LET folder == tree.folders[key]
              IN  /\ folder.path = key
                  /\ folder.depth = IF key = Root THEN 0 ELSE Len(key)
                  /\ \A j, k \in DOMAIN folder.subfolders :
                        j < k => CodeUnitRank(folder.subfolders[j])
                                   < CodeUnitRank(folder.subfolders[k])
                  /\ Range(folder.subfolders) =
                        { c[Len(c)] : c \in { d \in (DOMAIN tree.folders) \ {Root} :
                                                ParentOf(d) = key } }
        /\ (Len(files) = 3 /\ Range(files) = {1, 2, 3}) =>
              /\ DOMAIN tree.folders = { Root, << "sub" >>, << "sub", "deep" >> }
              /\ tree.folders[Root].depth = 0
              /\ tree.folders[<< "sub" >>].depth = 1
              /\ tree.folders[<< "sub", "deep" >>].depth = 2
              /\ tree.folders[Root].subfolders = << "sub" >>
              /\ tree.folders[<< "sub" >>].subfolders = << "deep" >>
              /\ tree.folders[<< "sub", "deep" >>].subfolders = << >>

\* C19 witness: the tree of the three files of the example, handed over
\* deepest first, so that the folders were made in the order sub/deep, sub,
\* root.
C19_Witness ==
    /\ TreeBuilt
    /\ files = << 3, 2, 1 >>
    /\ tree.keys = << << "sub", "deep" >>, << "sub" >>, Root >>
    /\ tree.folders[<< "sub", "deep" >>].depth = 2
    /\ tree.folders[Root].subfolders = << "sub" >>

\* C20: every analysis is in the files list of exactly one folder, the one
\* named by its relative path without the last segment (the root sentinel
\* for a path of one segment); every folder's files list holds the analyses
\* that belong to it, each once, in the order of the input list.
C20_FilesByFolder ==
    TreeBuilt =>
        /\ \A k \in DOMAIN batch.analyses :
              FolderOf(batch.analyses[k]) \in DOMAIN tree.folders
        /\ \A key \in DOMAIN tree.folders :
              LET BelongsHere(analysis) == FolderOf(analysis) = key
              IN  tree.folders[key].files = SelectSeq(batch.analyses, BelongsHere)

\* C20 witness: a folder received two files, the later path of the sorted
\* order first, and the root received a file.
C20_Witness ==
    /\ TreeBuilt
    /\ files = << 5, 2, 1 >>
    /\ Len(tree.folders[Root].files) = 1
    /\ tree.folders[<< "sub" >>].files[1].relativePath = 5
    /\ tree.folders[<< "sub" >>].files[2].relativePath = 2

\* ------------------------------------------ getFoldersWithContent, any tree

MaxSubfolders == 2

\* The folder paths of the trees below, in ascending order of path.
TreeKeys == << Root, << "deep" >>, << "sub" >>, << "sub", "deep" >> >>

Reverse(list) == [k \in DOMAIN list |-> list[Len(list) + 1 - k]]

\* A folder of a tree: its path, its name, its depth, one file or none, and
\* a list of subfolder names.
FolderAt(key, hasFile, subfolders) ==
    [path |-> key,
     name |-> IF key = Root THEN "root" ELSE key[Len(key)],
     files |-> IF hasFile
               THEN AnalysesOf(<< CHOOSE p \in DOMAIN PathTable :
                                     SubSeq(PathTable[p], 1, Len(PathTable[p]) - 1)
                                        = IF key = Root THEN << >> ELSE key >>)
               ELSE << >>,
     subfolders |-> subfolders,
     depth |-> IF key = Root THEN 0 ELSE Len(key)]

\* The lists of subfolder names a folder of the trees below may have: up to
\* MaxSubfolders names, in any order and with repetitions, whether the
\* folders named exist or not. The root may name itself, ".", for which
\* subPath is the path of the root again; under another folder "." makes a
\* path that is the key of no folder, as the name "sub" does under "sub".
\* The folder deep names none: no path below it is a key, so that a name in
\* its list would be one more name of a missing folder, which the lists of
\* sub and sub/deep hold already.
SubfolderLists(key) ==
    IF key = Root
    THEN ListsUpTo(Range(FolderNames) \cup {"."}, MaxSubfolders)
    ELSE IF key = << "deep" >> THEN { << >> }
    ELSE ListsUpTo(Range(FolderNames), MaxSubfolders)

\* Any folder tree over the paths of TreeKeys: any of the folders may be
\* missing, each folder has a file or none and one of its lists of
\* subfolder names; the keys are in descending order of path, the order that
\* leaves the most to the sort.
InitContent ==
    /\ files = << >>
    /\ disk = << >>
    /\ cache = FreshCache
    /\ semaphore = NewSemaphore(Number(1))
    /\ pc = << >> /\ hash = << >> /\ cachedEntry = << >> /\ content = << >>
    /\ category = << >> /\ result = << >> /\ err = << >> /\ fired = << >>
    /\ acquires = << >> /\ ticket = << >> /\ releases = << >> /\ calls = << >>
    /\ counters = NoCounters
    /\ batch = [state |-> "fulfilled", error |-> << >>, analyses |-> << >>,
                cached |-> 0, analyzed |-> 0]
    /\ phase = "built"
    /\ run = 1
    /\ cacheFile = [kind |-> "missing"]
    /\ history = << >>
    /\ removedFromCache = << >>
    /\ cacheIO = [loads |-> 1, saves |-> 0]
    /\ \E K \in SUBSET Range(TreeKeys) :
       \E hasFile \in [K -> BOOLEAN] :
       \E ofRoot \in IF Root \in K THEN SubfolderLists(Root) ELSE { << >> } :
       \E ofSub \in IF << "sub" >> \in K
                     THEN SubfolderLists(<< "sub" >>) ELSE { << >> } :
       \E ofSubDeep \in IF << "sub", "deep" >> \in K
                         THEN SubfolderLists(<< "sub", "deep" >>) ELSE { << >> } :
          tree = [folders |-> [key \in K |->
                                 FolderAt(key, hasFile[key],
                                          IF key = Root THEN ofRoot
                                          ELSE IF key = << "sub" >> THEN ofSub
                                          ELSE IF key = << "sub", "deep" >>
                                          THEN ofSubDeep
                                          ELSE << >>)],
                  keys |-> Reverse(SelectSeq(TreeKeys, LAMBDA key : key \in K)),
                  root |-> Root]
    /\ foldersWithContent = << >>
    /\ rootDir = PlainRoot
    /\ config = DEFAULT_CONFIG

\* main, line 168, and main().catch: getFoldersWithContent is called on the
\* tree; when it throws, no list is assigned and the process exits with an
\* error.
MainFoldersWithContent ==
    /\ phase = "built"
    /\ LET listed == getFoldersWithContent(tree)
       IN  /\ foldersWithContent' =
                  IF listed.thrown THEN foldersWithContent ELSE listed.result
           /\ tree' = listed.tree
           /\ phase' = IF listed.thrown THEN "failed" ELSE "written"
    /\ UNCHANGED << files, disk, cache, semaphore, taskVars, run, cacheFile,
                    history, removedFromCache, cacheIO, rootDir, config >>

SpecContent == InitContent /\ [][MainFoldersWithContent]_vars

\* The folders of the tree t whose subtree holds a file: the folders with a
\* file, and step by step the folders that name a subfolder already found.
RECURSIVE Grow(_, _)
Grow(t, found) ==
    LET more == { key \in DOMAIN t.folders :
                    \E k \in DOMAIN t.folders[key].subfolders :
                        SubPath(key, t.folders[key].subfolders[k]) \in found }
    IN  IF more \subseteq found THEN found ELSE Grow(t, found \cup more)

WithContent(t) ==
    Grow(t, { key \in DOMAIN t.folders : t.folders[key].files # << >> })

\* The call made in this step has returned what C21 says: exactly the folders
\* whose subtree, followed along the subfolder names, holds a file, each
\* once; the subfolder list of a returned folder is the list of its
\* subfolders that are returned too, in their original order, and its other
\* fields are those of the tree's folder; the list is sorted by path; the
\* tree the call was given is left as it was.
ReturnedFoldersWithContent ==
    LET returned == foldersWithContent'
        with     == WithContent(tree)
    IN  /\ phase' = "written"
        /\ { returned[k].path : k \in DOMAIN returned } = with
        /\ Len(returned) = Cardinality(with)
        /\ \A k \in DOMAIN returned :
              LET folder == tree.folders[returned[k].path]
              IN  /\ returned[k].subfolders =
                        SelectSeq(folder.subfolders,
                            LAMBDA sub : SubPath(folder.path, sub) \in with)
                  /\ returned[k] =
                        [folder EXCEPT !.subfolders = returned[k].subfolders]
        /\ \A j, k \in DOMAIN returned :
              j < k => localeCompare(returned[j].path, returned[k].path) < 0
        /\ tree' = tree

\* The root of the tree holds no file and names itself, ".", as a subfolder
\* ahead of every subfolder with content.
RootAsksItself ==
    /\ Root \in DOMAIN tree.folders
    /\ tree.folders[Root].files = << >>
    /\ \E k \in DOMAIN tree.folders[Root].subfolders :
          /\ tree.folders[Root].subfolders[k] = "."
          /\ \A j \in 1..(k - 1) :
                SubPath(Root, tree.folders[Root].subfolders[j])
                    \notin WithContent(tree)

\* The statement of C21 as it was made: for every folder tree the call
\* returns the folders with content, filtered and sorted, and leaves the
\* tree as it was. It fails for a root without a file that names "." as a
\* subfolder, for which the call does not return.
C21_EveryTree ==
    [][ phase = "built" => ReturnedFoldersWithContent ]_vars

\* C21: for every folder tree except those whose root holds no file and
\* names "." as a subfolder ahead of every subfolder with content,
\* getFoldersWithContent returns exactly the folders whose subtree, followed
\* along the subfolder names, holds a file, each once, every one with the
\* list of its subfolders that are returned too, in their original order,
\* sorted by path, and leaves the tree as it was. For the trees excepted the
\* call does not return: it ends with the error of the exhausted call stack,
\* no list is assigned and the tree is as it was.
C21_FoldersWithContent ==
    [][ phase = "built" =>
          IF RootAsksItself
          THEN /\ phase' = "failed"
               /\ foldersWithContent' = foldersWithContent
               /\ tree' = tree
          ELSE ReturnedFoldersWithContent ]_vars

\* The call has returned for a tree whose keys are in descending order and
\* whose root, without a file, names "." after a subfolder with content: the
\* root is returned with both names, the empty folder deep and the name of
\* the missing folder sub/sub are left out, and the list is sorted.
C21_Witness ==
    /\ phase = "written"
    /\ tree.keys = << << "sub", "deep" >>, << "sub" >>, << "deep" >>, Root >>
    /\ tree.folders[Root].files = << >>
    /\ tree.folders[Root].subfolders = << "sub", "." >>
    /\ tree.folders[<< "deep" >>].files = << >>
    /\ tree.folders[<< "deep" >>].subfolders = << >>
    /\ tree.folders[<< "sub" >>].files = << >>
    /\ tree.folders[<< "sub" >>].subfolders = << "sub", "deep" >>
    /\ tree.folders[<< "sub", "deep" >>].files # << >>
    /\ Len(foldersWithContent) = 3
    /\ foldersWithContent[1].path = Root
    /\ foldersWithContent[1].subfolders = << "sub", "." >>
    /\ foldersWithContent[2].path = << "sub" >>
    /\ foldersWithContent[2].subfolders = << "deep" >>
    /\ foldersWithContent[3].path = << "sub", "deep" >>

\* ------------------------------------------ discoverFiles, any root

MaxRules == 1

\* "*", "!*", "!CLIFFNOTES.md" and "!.cliffnotes-cache.json"
GitignoreRules ==
    { Rule(FALSE, "any", << >>), Rule(TRUE, "any", << >>),
      Rule(TRUE, "name", OutputFileName), Rule(TRUE, "name", CacheFileName) }

\* The root directories: one that does not exist, or one that holds any of
\* the files of FileTable but .gitignore, with or without an ignore file of
\* at most MaxRules lines, on a platform whose separator is "/" or "\". A
\* file name holds a backslash only where "/" is the separator.
RootDirs ==
    { [exists |-> FALSE, sep |-> sep, present |-> {}, gitignore |-> NoGitignore,
       walk |-> << >>] :
        sep \in {Slash, Backslash} }
    \cup
    { [exists |-> TRUE, sep |-> sep, present |-> present, gitignore |-> gitignore,
       walk |-> walk] :
        sep \in {Slash, Backslash},
        present \in SUBSET (Range(FileTable) \ { << GitignoreName >> }),
        walk \in WalkOrders,
        gitignore \in {NoGitignore} \cup
                      { [exists |-> TRUE, rules |-> rules] :
                          rules \in ListsUpTo(GitignoreRules, MaxRules) } }

\* The state at the call of discoverFiles, main line 128: any of the root
\* directories, and the config main builds from a command line without the
\* flag or with -c followed by any of ConcurrencyArgs.
InitDiscover ==
    /\ files = << >>
    /\ disk = << >>
    /\ cache = FreshCache
    /\ semaphore = NewSemaphore(Number(1))
    /\ pc = << >> /\ hash = << >> /\ cachedEntry = << >> /\ content = << >>
    /\ category = << >> /\ result = << >> /\ err = << >> /\ fired = << >>
    /\ acquires = << >> /\ ticket = << >> /\ releases = << >> /\ calls = << >>
    /\ counters = NoCounters
    /\ batch = PendingBatch
    /\ phase = "start"
    /\ run = 1
    /\ cacheFile = [kind |-> "missing"]
    /\ history = << >>
    /\ removedFromCache = << >>
    /\ cacheIO = NoCacheIO
    /\ tree = EmptyTree
    /\ foldersWithContent = << >>
    /\ rootDir \in { root \in RootDirs :
                       root.sep = Backslash =>
                          \A segments \in root.present :
                             \A k \in DOMAIN segments :
                                \A j \in DOMAIN segments[k] :
                                   segments[k][j] # Backslash }
    /\ config \in {ConfigOf(<< >>)}
                  \cup { ConfigOf(<< arg >>) : arg \in ConcurrencyArgs }

\* main, lines 128-134, on the root directory as glob and ignore see it:
\* discovery; with no file the process exits at once with code 0.
MainDiscoverIn ==
    /\ phase = "start"
    /\ files' = discoverFilesIn(rootDir, config)
    /\ phase' = IF Len(files') = 0 THEN "exited" ELSE "discovered"
    /\ UNCHANGED << disk, cache, semaphore, taskVars, run, cacheFile, history,
                    removedFromCache, cacheIO, tree, foldersWithContent,
                    rootDir, config >>

SpecDiscover == InitDiscover /\ [][MainDiscoverIn]_vars

\* The name of the file a relative path leads to.
BaseName(relative) == LET segments == SplitOn(relative, Slash)
                      IN  segments[Len(segments)]

\* C22: the list discoverFiles returns holds no relative path twice, is in
\* ascending order of relative path, and holds neither the output file, nor
\* the cache file, nor a file named CLIFFNOTES.md in any folder, whatever the
\* ignore file and the exclude patterns are.
C22_DiscoveredList ==
    phase \in {"discovered", "exited"} =>
        /\ \A j, k \in DOMAIN files :
              j < k => /\ files[j].relative # files[k].relative
                       /\ ~CodeUnitsBefore(files[k].relative, files[j].relative)
        /\ \A k \in DOMAIN files :
              BaseName(files[k].relative)
                 \notin {config.outputFile, config.cacheFile, OutputFileName}

\* C23: on a root directory that does not exist, discovery fails; it returns
\* no list, and the run does not end as a run that found no file.
C23_RootNotFound ==
    (~rootDir.exists /\ phase # "start") => phase = "failed"

\* The end-to-end scenario: capacity 1 and two files, the first with an entry
\* of its current hash in the cache file the run found, the second new, with
\* a content the guard lets through.
CachedAndNew ==
    /\ semaphore.maxConcurrent = Number(1)
    /\ Len(files) = 2
    /\ ValidStoreFile(FileAtStart)
    /\ FileKeys(FileAtStart) = {files[1]}
    /\ FileAtStart.json[1].entries[files[1]].hash = computeFileHash(disk[files[1]])
    /\ ~ShouldSkip(disk[files[2]])

\* C24: when analyzeFiles returns for N files, cachedCount is the number of
\* results taken from the cache, analyzedCount the number of results
\* produced on the miss path, skipped files included, and the two add up to
\* N; with capacity 1, one unchanged cached file and one new file, the first
\* is a hit without a service call, the second makes one call and its entry
\* is stored, and the counts are 1 and 1.
C24_StatsCount ==
    (phase \in {"analyzing", "written", "done"} /\ batch.state = "fulfilled") =>
        /\ batch.cached = Cardinality({ i \in Tasks : result[i].fromCache })
        /\ batch.analyzed = Cardinality({ i \in Tasks : ~result[i].fromCache })
        /\ \A i \in Tasks : result[i].fromCache <=> pc[i] = "hit"
        /\ \A i \in Tasks : ~result[i].fromCache <=> pc[i] \in {"skipped", "analyzed"}
        /\ batch.cached + batch.analyzed = Len(files)
        /\ CachedAndNew =>
              /\ pc[1] = "hit" /\ calls[1] = 0 /\ acquires[1] = 0
              /\ pc[2] = "analyzed" /\ calls[2] = 1
              /\ ServiceCalls = 1
              /\ cache.entries[files[1]] = FileAtStart.json[1].entries[files[1]]
              /\ files[2] \in DOMAIN cache.entries
              /\ cache.entries[files[2]].hash = computeFileHash(disk[files[2]])
              /\ cache.entries[files[2]].analyzedAt = run
              /\ batch.cached = 1
              /\ batch.analyzed = 1

\* C24 witness: the scenario has run to its end, and the new entry is in the
\* cache file next to the old one.
C24_Witness ==
    /\ phase = "done"
    /\ run = 2
    /\ CachedAndNew
    /\ batch.cached = 1
    /\ batch.analyzed = 1
    /\ FileKeys(cacheFile) = {files[1], files[2]}
    /\ cacheFile.json[1].entries[files[1]].analyzedAt = 1
    /\ cacheFile.json[1].entries[files[2]].analyzedAt = 2

\* The state of a file in the state machine of the orchestrator, from where
\* its task stands: Unchecked until isCacheValid has been evaluated, which a
\* task whose hash could not be computed never gets to; CacheMiss from the
\* acquire call until the guarded block is left.
FileState(at, cause) ==
    CASE at = "hashing" -> "Unchecked"
      [] at = "failed" /\ cause = "hash" -> "Unchecked"
      [] at = "hit" -> "CacheHit"
      [] at \in {"queued", "admitted", "reading", "calling"} -> "CacheMiss"
      [] at = "skipped" -> "Skipped"
      [] at = "analyzed" -> "Analyzed"
      [] at = "failed" /\ cause # "hash" -> "Failed"

FileStateSteps ==
    { << "Unchecked", "CacheHit" >>, << "Unchecked", "CacheMiss" >>,
      << "CacheMiss", "Skipped" >>, << "CacheMiss", "Analyzed" >>,
      << "CacheMiss", "Failed" >> }

\* C25: every file follows Unchecked -> CacheHit | CacheMiss and
\* CacheMiss -> Skipped | Analyzed | Failed; a file that has reached CacheHit,
\* Skipped, Analyzed or Failed stays there; generateText is called at most
\* once for a file, and only while the file is in CacheMiss with a content
\* the guard did not skip.
C25_FileStateMachine ==
    [][ \A i \in Tasks :
          LET before == FileState(pc[i], err[i])
              after  == FileState(pc'[i], err'[i])
          IN  /\ before # after => << before, after >> \in FileStateSteps
              /\ before \in {"CacheHit", "Skipped", "Analyzed", "Failed"} =>
                    after = before /\ pc'[i] = pc[i] /\ calls'[i] = calls[i]
              /\ calls'[i] <= 1
              /\ calls'[i] # calls[i] =>
                    /\ calls[i] = 0
                    /\ before = "CacheMiss" /\ after = "CacheMiss"
                    /\ ~ShouldSkip(content'[i])
              /\ after \in {"Unchecked", "CacheHit", "Skipped"} => calls'[i] = 0
      ]_vars

\* C25 witness: of three files one was a hit, one was skipped, and one made
\* its one call and failed; the batch is over.
C25_Witness ==
    /\ \E i \in Tasks : pc[i] = "hit"
    /\ \E i \in Tasks : pc[i] = "skipped"
    /\ \E i \in Tasks : pc[i] = "failed" /\ err[i] = "service" /\ calls[i] = 1

\* Task i leaves the miss path in this step with a result.
Commits(i) ==
    pc[i] \notin {"skipped", "analyzed"} /\ pc'[i] \in {"skipped", "analyzed"}

\* The entry a task on the miss path stores for its result.
EntryOf(analysis, at) ==
    MakeEntry(analysis.hash, analysis.summary, analysis.category, at,
              analysis.tokens)

\* C26: a task that is analyzed or skipped replaces the entry of its own
\* relative path, whether there was one or not, and leaves the entry of
\* every other path as it was; no other step changes the store; over
\* pairwise distinct paths each key is written by at most one task, and the
\* store at the end of the batch is the one given by the results alone: the
\* entry of each result of the miss path, and the entry found for each hit.
C26_OwnKeyOnly ==
    [][ /\ \A i \in Tasks :
              Commits(i) =>
                 /\ DOMAIN cache'.entries = (DOMAIN cache.entries) \cup {files[i]}
                 /\ cache'.entries[files[i]] = EntryOf(result'[i].analysis, run)
                 /\ \A p \in (DOMAIN cache.entries) \ {files[i]} :
                       cache'.entries[p] = cache.entries[p]
                 /\ \A j \in Tasks \ {i} : files[j] # files[i] /\ ~Commits(j)
        /\ cache' # cache => \E i \in Tasks : Commits(i)
        /\ batch'.state = "fulfilled" =>
              \A i \in Tasks :
                 cache'.entries[files[i]] =
                    IF pc'[i] = "hit" THEN cachedEntry'[i]
                    ELSE EntryOf(result'[i].analysis, run)
      ]_vars

\* C26 witness: the batch is over; one task replaced a stale entry, one
\* stored an entry where there was none, and the entry of a hit is the one
\* that was found.
C26_Witness ==
    /\ batch.state = "fulfilled"
    /\ \E i, j, k \in Tasks :
          /\ pc[i] = "analyzed" /\ cachedEntry[i] # Undefined
          /\ cache.entries[files[i]] # cachedEntry[i]
          /\ pc[j] = "skipped" /\ cachedEntry[j] = Undefined
          /\ pc[k] = "hit" /\ cache.entries[files[k]] = cachedEntry[k]

\* C27: when computeFileHash fails for a file, analyzeFiles rejects; the
\* task of the file has called neither acquire nor release, has read no
\* content, made no call, produced no result, written no entry (the entry
\* of its path, if any, is one the batch found) and fired no callback.
C27_HashFailure ==
    \A i \in Tasks :
        (pc[i] = "failed" /\ err[i] = "hash") =>
            /\ batch.state = "rejected"
            /\ batch.error # << >>
            /\ acquires[i] = 0
            /\ releases[i] = 0
            /\ ticket[i] = 0
            /\ \A k \in DOMAIN semaphore.queue : semaphore.queue[k] # i
            /\ content[i] = Undefined
            /\ calls[i] = 0
            /\ result[i] = NoResult
            /\ fired[i] = 0
            /\ counters.invoked = Cardinality({ j \in Tasks : fired[j] = 1 })
            /\ files[i] \in DOMAIN cache.entries =>
                  cache.entries[files[i]] \in StoredEntries

\* C27 witness: the hash of a file with a stored entry could not be read
\* while another task held the slot; the batch is rejected with that error.
C27_Witness ==
    \E i, j \in Tasks :
        /\ pc[i] = "failed" /\ err[i] = "hash"
        /\ files[i] \in DOMAIN cache.entries
        /\ batch.state = "rejected"
        /\ batch.error = << [task |-> i, cause |-> "hash"] >>
        /\ pc[j] = "calling"

\* ------------------------------------------ isCacheValid, any entry

\* The entries a store may hold for the one path of the batch: any stored
\* hash, with any summary, category, timestamp and token usage.
AnyEntries ==
    { MakeEntry(h, summary, cat, at, tokens) :
        h \in { c.digest : c \in Contents },
        summary \in { [kind |-> "text", text |-> 0],
                      SkippedSummary(1, "other") },
        cat \in { "other", "service" },
        at \in { 0, 1 },
        tokens \in { ZeroTokens, [input |-> 1, output |-> 1] } }

\* One file with any content of Contents, and a store that holds any entry
\* for its path, or none.
InitValid ==
    /\ files = << 1 >>
    /\ disk \in [{1} -> Contents]
    /\ cache \in { FreshCache } \cup
                 { setCacheEntry(FreshCache, 1, entry) : entry \in AnyEntries }
    /\ semaphore \in { NewSemaphore(Number(c)) : c \in 1..MaxConcurrency }
    /\ StartTasks(1)
    /\ phase = "analyzing"
    /\ run = 1
    /\ cacheFile = [kind |-> "missing"]
    /\ history = << >>
    /\ MemoryAtStart

SpecValid == InitValid /\ [][Next]_vars

\* C28: isCacheValid(entry, currentHash) holds just when there is an entry
\* and its hash is currentHash: once a task has looked its entry up, it has
\* taken the cache-hit path if and only if the entry it found exists and
\* carries the hash it computed; never when no entry was found; and whatever
\* the category, summary, timestamp and token usage of the entry are.
C28_ValidIffSameHash ==
    \A i \in Tasks :
        Checked(i) =>
            /\ pc[i] = "hit" <=>
                  (cachedEntry[i] # Undefined /\ cachedEntry[i].hash = hash[i])
            /\ cachedEntry[i] = Undefined => pc[i] # "hit"
            /\ isCacheValid(cachedEntry[i], hash[i]) <=> pc[i] = "hit"
            /\ \A entry \in AnyEntries :
                  isCacheValid(entry, hash[i]) <=> entry.hash = hash[i]
            /\ ~isCacheValid(Undefined, hash[i])

\* C28 witness: an entry written now, with a placeholder summary, another
\* category and token counts, but with the hash of the content, was valid.
C28_Witness ==
    /\ pc[1] = "hit"
    /\ cachedEntry[1].analyzedAt = 1
    /\ cachedEntry[1].summary.kind = "skipped"
    /\ cachedEntry[1].category = "service"
    /\ cachedEntry[1].tokens # ZeroTokens
    /\ ~ShouldSkip(disk[1])

\* C29: with a capacity of at least 1, when every read settles and every
\* call of the external service returns, with a result or a failure, every
\* task reaches a terminal state, and every task queued on the limiter is
\* admitted, whatever tasks arrive later and whatever tasks are cache hits.
C29_Progress ==
    \A i \in 1..NumFiles :
        /\ <>(pc[i] \in Terminal)
        /\ (pc[i] = "queued") ~> (pc[i] = "admitted")

\* C29 witness: with a cache hit and a failed call behind it, a task that
\* had been queued on a limiter of capacity 1 has been admitted.
C29_Witness ==
    /\ semaphore.maxConcurrent = Number(1)
    /\ \E i, j, k \in Tasks :
          /\ pc[i] = "admitted" /\ ticket[i] > 0
          /\ pc[j] = "failed" /\ err[j] = "service"
          /\ pc[k] = "hit"

\* C30: once analyzeFiles has rejected with a service failure, no task of
\* the batch starts a call of the external service, writes a cache entry or
\* fires the progress callback: the store holds only the entries committed
\* before the failure.
C30_NothingAfterAbort ==
    [][ (batch.state = "rejected" /\ batch.error[1].cause = "service") =>
            /\ calls' = calls
            /\ cache' = cache
            /\ fired' = fired
            /\ counters' = counters ]_vars

\* ------------------------------------- analyzeFile, a file that changes

\* The file system outside the program: another process rewrites the file
\* at a path while the batch runs, between any two steps of the tasks.
DiskEdit(p, c) ==
    /\ phase = "analyzing"
    /\ disk[p] # c
    /\ disk' = [disk EXCEPT ![p] = c]
    /\ UNCHANGED << files, cache, semaphore, pc, localVars, result, err,
                    counters, fired, batch, acquires, ticket, releases, calls,
                    phase, run, cacheFile, history, removedFromCache, cacheIO,
                    tree, foldersWithContent, rootDir, config >>

\* A batch of two files, one slot or two; the store is empty or holds an
\* entry for the first file.
InitEdit ==
    /\ files = << 1, 2 >>
    /\ disk \in [{1, 2} -> Contents]
    /\ cache \in { FreshCache } \cup
                 { setCacheEntry(FreshCache, 1, entry) : entry \in StoredEntries }
    /\ semaphore \in { NewSemaphore(Number(c)) : c \in 1..MaxConcurrency }
    /\ StartTasks(2)
    /\ phase = "analyzing"
    /\ run = 1
    /\ cacheFile = [kind |-> "missing"]
    /\ history = << >>
    /\ MemoryAtStart

NextEdit ==
    \/ Next
    \/ \E p \in DOMAIN disk : \E c \in Contents : DiskEdit(p, c)

SpecEdit == InitEdit /\ [][NextEdit]_vars

\* C31: every entry written on the miss path carries the hash of the very
\* content that was classified and then skipped or sent to the service,
\* also when the file is rewritten between the task's hash computation and
\* its read of the content.
C31_HashOfAnalyzedContent ==
    \A i \in DOMAIN files :
        pc[i] \in {"skipped", "analyzed"} =>
            /\ getCacheEntry(cache, files[i]) # Undefined
            /\ getCacheEntry(cache, files[i]).hash = computeFileHash(content[i])

\* --------------------------------------- detectCategory, content as text

\* A text is the sequence of its code units; a character that is not
\* ASCII is named by its code point.  toLowerCase maps every upper-case
\* letter to its lower-case form, which for U+0130 is two code units and
\* for the capital sigma U+03A3 is the final sigma U+03C2 when a cased
\* letter comes before it and none after it, marks and punctuation that
\* case ignores set aside, and U+03C3 otherwise; it leaves every other
\* character as it is.  The letters of the model are A..Z, a..z, U+00C9
\* and U+00E9 (E acute), U+0130 (I with dot above), U+212A (the Kelvin
\* sign) and the three sigmas.
toLowerCase(str) ==
    LET upper == << "A", "B", "C", "D", "E", "F", "G", "H", "I", "J", "K", "L",
                    "M", "N", "O", "P", "Q", "R", "S", "T", "U", "V", "W", "X",
                    "Y", "Z", "U+00C9", "U+212A" >>
        lower == << "a", "b", "c", "d", "e", "f", "g", "h", "i", "j", "k", "l",
                    "m", "n", "o", "p", "q", "r", "s", "t", "u", "v", "w", "x",
                    "y", "z", "U+00E9", "k" >>
        cased(ch) ==
            \/ \E n \in DOMAIN upper : ch \in {upper[n], lower[n]}
            \/ ch \in {"U+0130", "U+03A3", "U+03C3", "U+03C2"}
        caseIgnorable(ch) ==
            ch \in {"'", ".", ":", "^", "U+0060", "U+00A8", "U+00AD", "U+00B7",
                    "U+0307"}
        finalSigma(k) ==
            /\ \E j \in 1..(k - 1) :
                  /\ cased(str[j])
                  /\ \A n \in (j + 1)..(k - 1) : caseIgnorable(str[n])
            /\ ~ \E j \in (k + 1)..Len(str) :
                  /\ cased(str[j])
                  /\ \A n \in (k + 1)..(j - 1) : caseIgnorable(str[n])
        lowerAt(k) ==
            IF str[k] = "U+0130" THEN << "i", "U+0307" >>
            ELSE IF str[k] = "U+03A3"
            THEN IF finalSigma(k) THEN << "U+03C2" >> ELSE << "U+03C3" >>
            ELSE IF \E n \in DOMAIN upper : upper[n] = str[k]
            THEN << lower[CHOOSE n \in DOMAIN upper : upper[n] = str[k]] >>
            ELSE << str[k] >>
        RECURSIVE From(_)
        From(k) == IF k > Len(str) THEN << >> ELSE lowerAt(k) \o From(k + 1)
    IN  From(1)

\* String.prototype.includes: the search string occurs in the text.
includes(str, searchString) == Contains(str, searchString)

\* detectCategory, lines 17-21: the strings looked for in the lower-cased
\* content of a schema file, written as the code writes them.
SchemaMarkers ==
    {
      \* datasource 
      << "d", "a", "t", "a", "s", "o", "u", "r", "c", "e", " " >>,
      \* createtable
      << "c", "r", "e", "a", "t", "e", "t", "a", "b", "l", "e" >>,
      \* pgTable(
      << "p", "g", "T", "a", "b", "l", "e", "(" >>,
      \* sqlitetable(
      << "s", "q", "l", "i", "t", "e", "t", "a", "b", "l", "e", "(" >>,
      \* mysqltable(
      << "m", "y", "s", "q", "l", "t", "a", "b", "l", "e", "(" >> }

\* detectCategory, the content half of its predicates: the categories
\* whose content predicate the text satisfies.  Every search is made in
\* lowerContent, the lower-cased text.
contentPredicates(text) ==
    LET lowerContent == toLowerCase(text)
        routerMarkers ==
            {
              \* createtrpcrouter
              << "c", "r", "e", "a", "t", "e", "t", "r", "p", "c", "r",
                 "o", "u", "t", "e", "r" >>,
              \* router.get(
              << "r", "o", "u", "t", "e", "r", ".", "g", "e", "t", "(" >>,
              \* router.post(
              << "r", "o", "u", "t", "e", "r", ".", "p", "o", "s", "t",
                 "(" >>,
              \* app.get(
              << "a", "p", "p", ".", "g", "e", "t", "(" >>,
              \* app.post(
              << "a", "p", "p", ".", "p", "o", "s", "t", "(" >>,
              \* export async function get(
              << "e", "x", "p", "o", "r", "t", " ", "a", "s", "y", "n",
                 "c", " ", "f", "u", "n", "c", "t", "i", "o", "n", " ",
                 "g", "e", "t", "(" >>,
              \* export async function post(
              << "e", "x", "p", "o", "r", "t", " ", "a", "s", "y", "n",
                 "c", " ", "f", "u", "n", "c", "t", "i", "o", "n", " ",
                 "p", "o", "s", "t", "(" >>,
              \* hono
              << "h", "o", "n", "o" >> }
        \* "export default function"
        exportDefaultFunction ==
            << "e", "x", "p", "o", "r", "t", " ", "d", "e", "f", "a", "u",
               "l", "t", " ", "f", "u", "n", "c", "t", "i", "o", "n" >>
        \* "export function"
        exportFunction ==
            << "e", "x", "p", "o", "r", "t", " ", "f", "u", "n", "c", "t",
               "i", "o", "n" >>
        \* "return ("
        returnParen ==
            << "r", "e", "t", "u", "r", "n", " ", "(" >>
        \* "export interface"
        exportInterface ==
            << "e", "x", "p", "o", "r", "t", " ", "i", "n", "t", "e", "r",
               "f", "a", "c", "e" >>
        \* "function"
        function ==
            << "f", "u", "n", "c", "t", "i", "o", "n" >>
        \* "class "
        class ==
            << "c", "l", "a", "s", "s", " " >>
        \* "async function"
        asyncFunction ==
            << "a", "s", "y", "n", "c", " ", "f", "u", "n", "c", "t", "i",
               "o", "n" >>
    IN  { cat \in ContentCategories :
            \/ /\ cat = "schema"
               /\ \E m \in SchemaMarkers : includes(lowerContent, m)
            \/ /\ cat = "router"
               /\ \E m \in routerMarkers : includes(lowerContent, m)
            \/ /\ cat = "component"
               /\ \/ includes(lowerContent, exportDefaultFunction)
                  \/ /\ includes(lowerContent, exportFunction)
                     /\ includes(lowerContent, returnParen)
            \/ /\ cat = "type"
               /\ includes(lowerContent, exportInterface)
               /\ ~includes(lowerContent, function)
            \/ /\ cat = "service"
               /\ \/ includes(lowerContent, class)
                  \/ includes(lowerContent, asyncFunction) }

\* The texts of the files: type declarations, schema definitions in
\* several spellings, and one text for every other content predicate.
Texts ==
    <<
      \* export type Id = string
      << "e", "x", "p", "o", "r", "t", " ", "t", "y", "p", "e", " ", "I",
         "d", " ", "=", " ", "s", "t", "r", "i", "n", "g" >>,
      \* export interface A {}
      << "e", "x", "p", "o", "r", "t", " ", "i", "n", "t", "e", "r", "f",
         "a", "c", "e", " ", "A", " ", "{", "}" >>,
      \* export interface A {} function f() {}
      << "e", "x", "p", "o", "r", "t", " ", "i", "n", "t", "e", "r", "f",
         "a", "c", "e", " ", "A", " ", "{", "}", " ", "f", "u", "n", "c",
         "t", "i", "o", "n", " ", "f", "(", ")", " ", "{", "}" >>,
      \* export type Id = string; function f() {}
      << "e", "x", "p", "o", "r", "t", " ", "t", "y", "p", "e", " ", "I",
         "d", " ", "=", " ", "s", "t", "r", "i", "n", "g", ";", " ", "f",
         "u", "n", "c", "t", "i", "o", "n", " ", "f", "(", ")", " ", "{",
         "}" >>,
      \* export type Id = string; export interface A {}
      << "e", "x", "p", "o", "r", "t", " ", "t", "y", "p", "e", " ", "I",
         "d", " ", "=", " ", "s", "t", "r", "i", "n", "g", ";", " ", "e",
         "x", "p", "o", "r", "t", " ", "i", "n", "t", "e", "r", "f", "a",
         "c", "e", " ", "A", " ", "{", "}" >>,
      \* const t = pgTable("t")
      << "c", "o", "n", "s", "t", " ", "t", " ", "=", " ", "p", "g", "T",
         "a", "b", "l", "e", "(", "\"", "t", "\"", ")" >>,
      \* const t = PGTABLE("t")
      << "c", "o", "n", "s", "t", " ", "t", " ", "=", " ", "P", "G", "T",
         "A", "B", "L", "E", "(", "\"", "t", "\"", ")" >>,
      \* const t = sqliteTable("t")
      << "c", "o", "n", "s", "t", " ", "t", " ", "=", " ", "s", "q", "l",
         "i", "t", "e", "T", "a", "b", "l", "e", "(", "\"", "t", "\"",
         ")" >>,
      \* const t = mysqlTable("t")
      << "c", "o", "n", "s", "t", " ", "t", " ", "=", " ", "m", "y", "s",
         "q", "l", "T", "a", "b", "l", "e", "(", "\"", "t", "\"", ")" >>,
      \* knex.schema.createTable("t")
      << "k", "n", "e", "x", ".", "s", "c", "h", "e", "m", "a", ".", "c",
         "r", "e", "a", "t", "e", "T", "a", "b", "l", "e", "(", "\"", "t",
         "\"", ")" >>,
      \* CREATETABLE t
      << "C", "R", "E", "A", "T", "E", "T", "A", "B", "L", "E", " ", "t" >>,
      \* datasource db {}
      << "d", "a", "t", "a", "s", "o", "u", "r", "c", "e", " ", "d", "b",
         " ", "{", "}" >>,
      \* Datasource db {}
      << "D", "a", "t", "a", "s", "o", "u", "r", "c", "e", " ", "d", "b",
         " ", "{", "}" >>,
      \* const x = 1
      << "c", "o", "n", "s", "t", " ", "x", " ", "=", " ", "1" >>,
      \* app.get("/")
      << "a", "p", "p", ".", "g", "e", "t", "(", "\"", "/", "\"", ")" >>,
      \* export default function A() {}
      << "e", "x", "p", "o", "r", "t", " ", "d", "e", "f", "a", "u", "l",
         "t", " ", "f", "u", "n", "c", "t", "i", "o", "n", " ", "A", "(",
         ")", " ", "{", "}" >>,
      \* export function A() { return (1) }
      << "e", "x", "p", "o", "r", "t", " ", "f", "u", "n", "c", "t", "i",
         "o", "n", " ", "A", "(", ")", " ", "{", " ", "r", "e", "t", "u",
         "r", "n", " ", "(", "1", ")", " ", "}" >>,
      \* class A {}
      << "c", "l", "a", "s", "s", " ", "A", " ", "{", "}" >> >>


\* The contents of the files whose text is one of Texts: one line, the
\* length that of the text, a digest of its own, the predicates those
\* detectCategory finds in the text.
TextContents ==
    { [id |-> 10 + n, length |-> Len(Texts[n]), lines |-> 1, digest |-> 10 + n,
       preds |-> contentPredicates(Texts[n]), text |-> Texts[n]] :
        n \in DOMAIN Texts }

\* The relative path that satisfies no path predicate, and the paths that
\* satisfy exactly one.
TextPaths == { 2 ^ Len(PathBits) } \cup { 2 ^ (k - 1) : k \in DOMAIN PathBits }

\* A batch of one file: a path of TextPaths with any of the texts; the
\* store is empty.
InitText ==
    /\ \E p \in TextPaths : \E c \in TextContents :
          /\ files = << p >>
          /\ disk = [q \in {p} |-> c]
    /\ cache = FreshCache
    /\ semaphore = NewSemaphore(Number(1))
    /\ StartTasks(1)
    /\ phase = "analyzing"
    /\ run = 1
    /\ cacheFile = [kind |-> "missing"]
    /\ history = << >>
    /\ MemoryAtStart

SpecText == InitText /\ [][Next]_vars

\* "export type", the declaration of an exported type alias, and
\* "function", the keyword of a function declaration.
ExportType ==
    << "e", "x", "p", "o", "r", "t", " ", "t", "y", "p", "e" >>

FunctionKeyword == << "f", "u", "n", "c", "t", "i", "o", "n" >>

\* The categories tested before type.
BeforeType == {"schema", "router", "hook", "component"}

\* C32: a file whose path satisfies neither the type predicate nor an
\* earlier one, whose content satisfies no earlier predicate, and whose
\* text declares an exported type alias and no function, is classified
\* type, as a text with an exported interface and no function is.
C32_ExportedTypeAlias ==
    \A i \in Tasks :
        ( /\ Guarded(i)
          /\ PathPreds(files[i]) \cap (BeforeType \cup {"type"}) = {}
          /\ content[i].preds \cap BeforeType = {}
          /\ includes(content[i].text, ExportType)
          /\ ~includes(content[i].text, FunctionKeyword) )
        => category[i] = "type"

\* Some schema marker occurs in the text, in any letter case.
DeclaresSchema(text) ==
    \E m \in SchemaMarkers : includes(toLowerCase(text), toLowerCase(m))

\* C33: a content that contains pgTable(, sqliteTable(, mysqlTable(,
\* createTable or a datasource declaration, in any letter case, is
\* classified schema whatever its path.
C33_SchemaMarkersAnyCase ==
    \A i \in Tasks :
        (Guarded(i) /\ DeclaresSchema(content[i].text))
            => category[i] = "schema"

\* ------------------------------------------- analyzeFiles, any capacity

\* A batch of two files that main starts with the capacity given after -c;
\* the store holds an entry for any of the files.
InitLimit ==
    /\ files = << 1, 2 >>
    /\ disk \in [{1, 2} -> Contents]
    /\ cache \in Stores({1, 2})
    /\ config \in { ConfigOf(<< arg >>) : arg \in ConcurrencyArgs }
    /\ semaphore = NewSemaphore(config.concurrency)
    /\ StartTasks(2)
    /\ phase = "analyzing"
    /\ run = 1
    /\ cacheFile = [kind |-> "missing"]
    /\ history = << >>
    /\ removedFromCache = << >>
    /\ cacheIO = NoCacheIO
    /\ tree = EmptyTree
    /\ foldersWithContent = << >>
    /\ rootDir = PlainRoot

SpecLimit == InitLimit /\ [][Next]_vars

\* The limiter has no slot to give: its capacity is 0, negative or NaN.
NoCapacity == ~LessThan(0, semaphore.maxConcurrent)

\* The statement of C34 as it was made: with a capacity of 0, a negative one
\* or NaN, a batch with a file that missed the cache stays pending, neither
\* fulfilled nor rejected. It fails when the hash of another file of the
\* batch cannot be read: computeFileHash runs before the limiter is asked,
\* and its failure rejects the batch.
C34_MissNeverSettles ==
    NoCapacity =>
        \A i \in Tasks : pc[i] = "queued" => batch.state = "pending"

\* C34: with a capacity of 0, a negative one or NaN, no task is ever
\* admitted: every task that misses the cache stays queued, no file is
\* read and the service is never called. A batch with a file that missed
\* the cache is never fulfilled: it is pending as long as no hash read has
\* failed and is rejected, with the error of that read, once one has; a
\* batch is fulfilled only when every file was a cache hit, and a batch of
\* cache hits only is fulfilled.
C34_NoCapacityNoAdmission ==
    NoCapacity =>
        /\ semaphore.running = 0
        /\ \A i \in Tasks :
              /\ pc[i] \in {"hashing", "hit", "queued", "failed"}
              /\ pc[i] = "failed" => err[i] = "hash"
              /\ content[i] = Undefined
              /\ calls[i] = 0
              /\ releases[i] = 0
        /\ \A i \in Tasks :
              pc[i] = "queued" =>
                  /\ batch.state # "fulfilled"
                  /\ FailedTasks = {} => batch.state = "pending"
                  /\ FailedTasks # {} =>
                        /\ batch.state = "rejected"
                        /\ Len(batch.error) = 1
                        /\ batch.error[1].cause = "hash"
                        /\ batch.error[1].task \in FailedTasks
        /\ batch.state = "fulfilled" <=> \A i \in Tasks : pc[i] = "hit"

\* C34 witness: -c was followed by a text without digits; the first file
\* was a cache hit, the second missed and waits in the queue of a limiter
\* whose capacity is NaN, and the batch is pending with no step left.
C34_Witness ==
    /\ semaphore.maxConcurrent = NaN
    /\ pc = << "hit", "queued" >>
    /\ semaphore.queue = << 2 >>
    /\ batch.state = "pending"
    /\ ~ENABLED Next

\* Every task has settled and the limiter is idle; each task that was
\* analyzed has made its call and its entry is in the store.
AllSettled ==
    /\ \A j \in Tasks : pc[j] \in Terminal
    /\ semaphore.running = 0
    /\ semaphore.queue = << >>
    /\ \A j \in Tasks :
          pc[j] = "analyzed" =>
              /\ calls[j] = 1
              /\ files[j] \in DOMAIN cache.entries
              /\ cache.entries[files[j]].summary = result[j].analysis.summary

\* C35: a task that fails while it holds a slot gives the slot back: with
\* an empty queue running goes down by one, otherwise the oldest queued task
\* is admitted in its place; no other task changes its position; and once
\* a task has failed every task still reaches its own end, the analyzed
\* ones having called the service and written their entry, and the limiter
\* is left with no slot held and an empty queue.
C35_FailureDoesNotCancel ==
    /\ [][ \A i \in Tasks :
             (pc[i] \in {"reading", "calling"} /\ pc'[i] = "failed") =>
                 IF semaphore.queue = << >>
                 THEN /\ semaphore'.running = semaphore.running - 1
                      /\ semaphore'.queue = << >>
                      /\ \A j \in Tasks \ {i} : pc'[j] = pc[j]
                 ELSE /\ semaphore'.running = semaphore.running
                      /\ semaphore'.queue = Tail(semaphore.queue)
                      /\ pc'[Head(semaphore.queue)] = "admitted"
                      /\ \A j \in Tasks \ {i, Head(semaphore.queue)} :
                            pc'[j] = pc[j]
         ]_vars
    /\ \A i \in 1..NumFiles : (pc[i] = "failed") ~> AllSettled

\* C35 witness: with one slot, the call of one task has failed and the
\* batch is rejected; a task that waited in the queue got the slot after
\* that and is now calling the service.
C35_Witness ==
    \E i, j \in Tasks :
        /\ semaphore.maxConcurrent = Number(1)
        /\ pc[i] = "failed" /\ err[i] = "service"
        /\ batch.state = "rejected"
        /\ pc[j] = "calling" /\ calls[j] = 1
        /\ semaphore.running = 1

\* C36: when analyzeFiles has succeeded on the store main pruned against
\* the discovered list, the keys of the store are exactly the relative
\* paths of the list, and the entry of every file has the hash, category,
\* summary and token usage of the file's result.
C36_StoreMatchesResults ==
    batch.state = "fulfilled" =>
        /\ DOMAIN cache.entries = Range(files)
        /\ \A i \in Tasks :
              /\ result[i].analysis.relativePath = files[i]
              /\ cache.entries[files[i]].hash = result[i].analysis.hash
              /\ cache.entries[files[i]].category = result[i].analysis.category
              /\ cache.entries[files[i]].summary = result[i].analysis.summary
              /\ cache.entries[files[i]].tokens = result[i].analysis.tokens

\* C36 witness: in a second run the prune removed the entry of a file that
\* is gone, the file that is left was a cache hit, and the batch has
\* succeeded with a store of that one key.
C36_Witness ==
    /\ run = 2
    /\ removedFromCache # << >>
    /\ batch.state = "fulfilled"
    /\ \E i \in Tasks : pc[i] = "hit"
    /\ DOMAIN cache.entries = Range(files)

\* ------------------------------------ analyzeFiles, store from its file

\* A batch of two files whose store is the one loadCache returns for the
\* cache file, with an entry for any of the files.
InitHit ==
    /\ files = << 1, 2 >>
    /\ disk \in [{1, 2} -> Contents]
    /\ cacheFile \in { saveCache(c) : c \in Stores({1, 2}) }
    /\ cache = loadCache(cacheFile)
    /\ semaphore \in { NewSemaphore(Number(c)) : c \in 1..MaxConcurrency }
    /\ StartTasks(2)
    /\ phase = "analyzing"
    /\ run = 1
    /\ history = << >>
    /\ MemoryAtStart

SpecHit == InitHit /\ [][Next]_vars

\* C37: the step in which a task finds a valid entry leaves the store as
\* it is: no entry is added, removed or rewritten and analyzedAt is not
\* refreshed; a batch of hits only ends with the store it was given, the
\* one loaded from the cache file.
C37_HitLeavesStore ==
    [][ \A i \in Tasks :
          (pc[i] = "hashing" /\ pc'[i] = "hit") =>
              /\ cache' = cache
              /\ cache'.entries[files[i]] = cachedEntry'[i]
              /\ cache'.entries[files[i]].analyzedAt # run
              /\ (batch'.state = "fulfilled" /\ \A j \in Tasks : pc'[j] = "hit")
                    => /\ cache' = loadCache(cacheFile)
                       /\ saveCache(cache') = cacheFile
      ]_vars

\* C37 witness: both files were cache hits; the batch has succeeded and
\* the store holds the two entries it was loaded with, written by an
\* earlier run.
C37_Witness ==
    /\ batch.state = "fulfilled"
    /\ \A i \in Tasks : pc[i] = "hit"
    /\ cache = loadCache(cacheFile)
    /\ DOMAIN cache.entries = {1, 2}
    /\ \A p \in DOMAIN cache.entries : cache.entries[p].analyzedAt < run

\* The tasks that were skipped as oversized or minified.
SkippedTasks == { i \in Tasks : pc[i] = "skipped" }

\* C38: analyzedCount counts every file that completed on the miss path,
\* the skipped ones included: at any time it is the number of analyzed and
\* skipped tasks, and when the batch has succeeded it is the number of
\* service calls plus the number of skipped files, hence never less than
\* the number of service calls.
C38_AnalyzedCountsSkipped ==
    /\ counters.analyzedCount =
          Cardinality({ i \in Tasks : pc[i] \in {"analyzed", "skipped"} })
    /\ batch.state = "fulfilled" =>
          /\ batch.analyzed = counters.analyzedCount
          /\ batch.analyzed = ServiceCalls + Cardinality(SkippedTasks)
          /\ batch.analyzed >= ServiceCalls

\* C38 witness: the batch has succeeded with one file analyzed by the
\* service and one skipped: one call was made and analyzedCount is 2.
C38_Witness ==
    /\ batch.state = "fulfilled"
    /\ \E i, j \in Tasks : pc[i] = "analyzed" /\ pc[j] = "skipped"
    /\ ServiceCalls = 1
    /\ batch.analyzed = 2

\* C39: for every list of analyses, getFoldersWithContent applied to the
\* tree buildFolderTree returns gives every folder of the tree, each once
\* and none left out, with its fields as they are in the tree, the list
\* of subfolders included; the tree itself is left as it was built.
C39_BuiltTreeAllContent ==
    TreeBuilt =>
        /\ tree = buildFolderTree(batch.analyses)
        /\ Len(foldersWithContent) = Cardinality(DOMAIN tree.folders)
        /\ { foldersWithContent[k].path : k \in DOMAIN foldersWithContent }
              = DOMAIN tree.folders
        /\ \A k \in DOMAIN foldersWithContent :
              /\ foldersWithContent[k] = tree.folders[foldersWithContent[k].path]
              /\ foldersWithContent[k].subfolders
                    = buildFolderTree(batch.analyses)
                         .folders[foldersWithContent[k].path].subfolders

\* C39 witness: the files lie in sub/deep and in deep; the root and sub
\* hold no file themselves and are returned all the same, the root with
\* its two subfolders.
C39_Witness ==
    /\ TreeBuilt
    /\ DOMAIN tree.folders =
          { Root, << "sub" >>, << "sub", "deep" >>, << "deep" >> }
    /\ tree.folders[Root].files = << >>
    /\ tree.folders[<< "sub" >>].files = << >>
    /\ Len(foldersWithContent) = 4
    /\ \E k \in DOMAIN foldersWithContent :
          /\ foldersWithContent[k].path = Root
          /\ foldersWithContent[k].subfolders = << "deep", "sub" >>

\* The tasks that hold a slot: acquire() has resolved for them and their
\* finally clause has not yet released.
Holders == { i \in Tasks : pc[i] \in {"admitted", "reading", "calling"} }

\* What holds of a limiter of capacity at least 1 in every state.
LimiterInvariant(sem, holders) ==
    /\ 0 <= sem.running
    /\ sem.running <= sem.maxConcurrent[1]
    /\ sem.queue # << >> => sem.running = sem.maxConcurrent[1]
    /\ sem.running = Cardinality(holders)

\* C40: for a capacity of at least 1, running is always between 0 and the
\* capacity, the queue holds a waiter only while running is at the
\* capacity, and running is the number of tasks between their completed
\* acquire and their release; a release that hands the slot to the oldest
\* waiter leaves running as it was.
C40_LimiterInvariant ==
    /\ LessThan(0, semaphore.maxConcurrent) => LimiterInvariant(semaphore, Holders)
    /\ [][ LessThan(0, semaphore.maxConcurrent) =>
             /\ LimiterInvariant(semaphore', Holders')
             /\ (semaphore.queue # << >> /\ semaphore'.queue = Tail(semaphore.queue))
                   => /\ semaphore'.running = semaphore.running
                      /\ pc[Head(semaphore.queue)] = "queued"
                      /\ pc'[Head(semaphore.queue)] = "admitted"
                      /\ Cardinality(Holders') = Cardinality(Holders)
         ]_vars

\* C40 witness: two slots are held, a third task waited; one holder has
\* finished and the waiter was admitted in its place: running is still 2
\* and the queue is empty.
C40_Witness ==
    /\ semaphore.maxConcurrent = Number(2)
    /\ semaphore.running = 2
    /\ semaphore.queue = << >>
    /\ \E i, j, k \in Tasks :
          /\ pc[i] \in {"analyzed", "skipped", "failed"} /\ releases[i] = 1
          /\ pc[j] = "admitted" /\ acquires[j] = 1
          /\ pc[k] \in {"reading", "calling"}

====
